---------------------------- MODULE Spec2Model ----------------------------
(***************************************************************************)
(* A model of obsidian-github-readme-sync: the content annotation codec,  *)
(* the repository resolver, the remote listing, the file reconciler, the   *)
(* pruning engine and the cross-run cleanup (src/src/main.ts,              *)
(* src/src/github.ts, src/src/linkRewrite.ts).                             *)
(*                                                                         *)
(* Strings.  A JavaScript string is modelled as a sequence of tokens.  A   *)
(* token is a TLA+ string that stands for a fixed run of characters; the   *)
(* vocabulary is chosen so that none of the patterns the code searches for *)
(* ('---\n', '\n---\n', '\n\n', '> [!WARNING] Read-Only', 'github_repo:',  *)
(* the backlink expression, ':' and '/') can begin or end inside a token,  *)
(* so a character-level search and the token-level search agree.          *)
(***************************************************************************)
EXTENDS Integers, Sequences, FiniteSets, TLC

(***************************************************************************)
(* Bounds of the model.                                                    *)
(***************************************************************************)
MaxParts == 3
MaxClock == 3

(***************************************************************************)
(* Tokens.                                                                 *)
(***************************************************************************)
NL == "\n"
SP == " "
FENCE == "---"
COLON == ":"
SLASH == "/"
\* the banner's title, '> [!WARNING] Read-Only'
WARN == "> [!WARNING] Read-Only"
\* the opening of a backlink, a left arrow, a space and '[['
BLOPEN == "<-[["
BLCLOSE == "]]"

Whitespace == {NL, SP}

(***************************************************************************)
(* String primitives of JavaScript, on token sequences.  Indices are       *)
(* 0-based as in the source; -1 is "not found".                            *)
(***************************************************************************)
SetMin(S) == CHOOSE x \in S : \A y \in S : x <= y

SetMax(S) == CHOOSE x \in S : \A y \in S : x >= y

Clamp(n, len) == IF n < 0 THEN 0 ELSE IF n > len THEN len ELSE n

\* String.prototype.startsWith
startsWith(s, p) == Len(s) >= Len(p) /\ SubSeq(s, 1, Len(p)) = p

\* String.prototype.endsWith
endsWith(s, p) == Len(s) >= Len(p) /\ SubSeq(s, Len(s) - Len(p) + 1, Len(s)) = p

\* String.prototype.indexOf(p, from)
indexOfFrom(s, p, from) ==
    LET hits == {i \in Clamp(from, Len(s))..(Len(s) - Len(p)) :
                    SubSeq(s, i + 1, i + Len(p)) = p}
    IN  IF hits = {} THEN -1 ELSE SetMin(hits)

indexOf(s, p) == indexOfFrom(s, p, 0)

\* String.prototype.includes
includes(s, p) == indexOf(s, p) # -1

\* String.prototype.substring(a, b): both ends clamped, swapped when a > b
substring(s, a, b) ==
    LET x == Clamp(a, Len(s))
        y == Clamp(b, Len(s))
    IN  IF x <= y THEN SubSeq(s, x + 1, y) ELSE SubSeq(s, y + 1, x)

\* String.prototype.substring(a)
substringFrom(s, a) == substring(s, a, Len(s))

\* String.prototype.trimStart
trimStart(s) ==
    LET keep == {i \in 1..Len(s) : s[i] \notin Whitespace}
    IN  IF keep = {} THEN <<>> ELSE SubSeq(s, SetMin(keep), Len(s))

\* String.prototype.trim
trim(s) ==
    LET keep == {i \in 1..Len(s) : s[i] \notin Whitespace}
    IN  IF keep = {} THEN <<>> ELSE SubSeq(s, SetMin(keep), SetMax(keep))

\* String.prototype.split(sep) for a one-token separator: the pieces between
\* the separators, empty pieces kept
split(s, sep) ==
    LET cuts == {i \in 1..Len(s) : s[i] = sep}
        n == Cardinality(cuts)
        \* position of the k-th separator, 0 for k = 0, Len(s)+1 for k = n+1
        cut(k) == IF k = 0 THEN 0
                  ELSE IF k = n + 1 THEN Len(s) + 1
                  ELSE CHOOSE i \in cuts : Cardinality({j \in cuts : j <= i}) = k
    IN  [k \in 1..(n + 1) |-> SubSeq(s, cut(k - 1) + 1, cut(k) - 1)]

\* Array.prototype.join(sep) for a one-token separator
RECURSIVE join(_, _)
join(parts, sep) ==
    IF Len(parts) = 0 THEN <<>>
    ELSE IF Len(parts) = 1 THEN parts[1]
    ELSE parts[1] \o <<sep>> \o join(Tail(parts), sep)

(***************************************************************************)
(* Content annotation codec (the codec that main.ts imports; the text of   *)
(* the version with the backlink step is in src/src/github.ts, lines       *)
(* 247-449).                                                               *)
(***************************************************************************)

\* FileMetadata {owner, repo, branch, path, githubUrl}: five strings

\* GitHubAPI.buildFileUrl
buildFileUrl(owner, repo, path, branch) ==
    <<"https", COLON, SLASH, SLASH, "github.com", SLASH>> \o owner \o <<SLASH>>
      \o repo \o <<SLASH, "blob", SLASH>> \o branch \o <<SLASH>> \o path

\* new Date().toISOString() at clock value t; the text holds colons
toISOString(t) == <<ToString(t), COLON, "00">>

\* the template literal of addFrontmatterIfMissing
frontmatterBlock(metadata, t) ==
    <<FENCE, NL, "github_repo", COLON, SP>> \o metadata.owner \o <<SLASH>>
      \o metadata.repo \o <<NL,
      "github_path", COLON, SP>> \o metadata.path \o <<NL,
      "github_url", COLON, SP>> \o metadata.githubUrl \o <<NL,
      "synced_at", COLON, SP>> \o toISOString(t) \o <<NL,
      "readonly", COLON, SP, "true", NL,
      FENCE, NL, NL>>

addFrontmatterIfMissing(content, metadata, t) ==
    IF startsWith(content, <<FENCE, NL>>)
    THEN content
    ELSE frontmatterBlock(metadata, t) \o content

\* the template literal of addReadonlyBanner
bannerBlock(metadata) ==
    <<WARN, NL,
      "> This file is synced from GitHub. Any local changes will be overwritten.", NL,
      "> View source", COLON, SP, "[">> \o metadata.owner \o <<SLASH>>
      \o metadata.repo \o <<"](">> \o metadata.githubUrl \o <<")", NL, NL>>

\* addReadonlyBanner detecting the banner only at the insertion point, not
\* anywhere after it (sensitivity variant for C7)
addReadonlyBanner_onlyAtStart(content, metadata) ==
    IF startsWith(content, <<FENCE, NL>>)
    THEN LET frontmatterEnd == indexOf(content, <<NL, FENCE, NL>>) + 5 - 2
             frontmatter == substring(content, 0, frontmatterEnd)
             remainingContent == substringFrom(content, frontmatterEnd)
         IN  IF startsWith(remainingContent, <<WARN>>)
             THEN content
             ELSE frontmatter \o bannerBlock(metadata) \o remainingContent
    ELSE IF startsWith(content, <<WARN>>)
         THEN content
         ELSE bannerBlock(metadata) \o content

addReadonlyBanner(content, metadata) ==
    IF startsWith(content, <<FENCE, NL>>)
    THEN LET frontmatterEnd == indexOf(content, <<NL, FENCE, NL>>) + 5 - 2
             \* '\n---\n' is 5 characters and 3 tokens: + 5 in the source
             frontmatter == substring(content, 0, frontmatterEnd)
             remainingContent == substringFrom(content, frontmatterEnd)
         IN  IF includes(remainingContent, <<WARN>>)
             THEN content
             ELSE frontmatter \o bannerBlock(metadata) \o remainingContent
    ELSE IF includes(content, <<WARN>>)
         THEN content
         ELSE bannerBlock(metadata) \o content

\* the length of the match of /^<- \[\[.*?\]\]\n\n/ at the start of s, or -1:
\* the opening, a lazy run of non-newline characters, ']]' and two newlines
backlinkMatch(s) ==
    LET ends == {k \in 2..(Len(s) - 2) :
                    /\ s[k] = BLCLOSE /\ s[k + 1] = NL /\ s[k + 2] = NL
                    /\ \A j \in 2..(k - 1) : s[j] # NL}
    IN  IF Len(s) >= 1 /\ s[1] = BLOPEN /\ ends # {} THEN SetMin(ends) + 2 ELSE -1

addBacklink(content, backLinkTarget) ==
    LET backlink == <<BLOPEN>> \o backLinkTarget \o <<BLCLOSE, NL, NL>>
        frontmatterEnd == indexOf(content, <<NL, FENCE, NL>>)
        pos1 == IF startsWith(content, <<FENCE, NL>>) /\ frontmatterEnd # -1
                THEN frontmatterEnd + 3
                ELSE 0
        remainingContent == substringFrom(content, pos1)
        bannerEnd == indexOf(remainingContent, <<NL, NL>>)
        insertPosition == IF startsWith(remainingContent, <<WARN>>) /\ bannerEnd # -1
                          THEN pos1 + bannerEnd + 2
                          ELSE pos1
        checkContent == substringFrom(content, insertPosition)
    IN  IF backlinkMatch(checkContent) # -1
        THEN content
        ELSE substring(content, 0, insertPosition) \o backlink
                \o substringFrom(content, insertPosition)

\* options: [addFrontmatter, addReadonlyBanner, addBacklinks: BOOLEAN,
\* backlinkTarget: a string, <<>> for undefined]
processFileContent(content, metadata, options, t) ==
    LET c1 == IF options.addFrontmatter
              THEN addFrontmatterIfMissing(content, metadata, t)
              ELSE content
        c2 == IF options.addReadonlyBanner
              THEN addReadonlyBanner(c1, metadata)
              ELSE c1
    IN  IF options.addBacklinks /\ options.backlinkTarget # <<>>
        THEN addBacklink(c2, options.backlinkTarget)
        ELSE c2

\* stripSyncedContent without the removal of the backlink, as in
\* src/src/linkRewrite.ts 78-103 (sensitivity variant for C6)
stripSyncedContent_keepBacklink(content) ==
    LET frontmatterEnd == indexOf(content, <<NL, FENCE, NL>>)
        s1 == IF /\ startsWith(content, <<FENCE, NL>>)
                 /\ frontmatterEnd # -1
                 /\ includes(substring(content, 2, frontmatterEnd),
                             <<"github_repo", COLON>>)
              THEN substringFrom(content, frontmatterEnd + 3)
              ELSE content
        bannerStart == indexOf(s1, <<WARN>>)
        bannerEnd == indexOfFrom(s1, <<NL, NL>>, bannerStart)
        s2 == IF bannerStart # -1 /\ bannerEnd # -1
              THEN substring(s1, 0, bannerStart) \o substringFrom(s1, bannerEnd + 2)
              ELSE s1
    IN  trimStart(s2)

stripSyncedContent(content) ==
    LET frontmatterEnd == indexOf(content, <<NL, FENCE, NL>>)
        s1 == IF /\ startsWith(content, <<FENCE, NL>>)
                 /\ frontmatterEnd # -1
                 /\ includes(substring(content, 2, frontmatterEnd),
                             <<"github_repo", COLON>>)
              THEN substringFrom(content, frontmatterEnd + 3)
              ELSE content
        bannerStart == indexOf(s1, <<WARN>>)
        bannerEnd == indexOfFrom(s1, <<NL, NL>>, bannerStart)
        s2 == IF bannerStart # -1 /\ bannerEnd # -1
              THEN substring(s1, 0, bannerStart) \o substringFrom(s1, bannerEnd + 2)
              ELSE s1
        m == backlinkMatch(s2)
        s3 == IF m # -1 THEN substringFrom(s2, m) ELSE s2
    IN  trimStart(s3)

\* the value the loop of extractGitHubMetadata leaves for `key`: the value of
\* the last line whose trimmed key is `key`, '' when there is none
headerValue(lines, key) ==
    LET keyOf(i) == trim(split(lines[i], COLON)[1])
        valueOf(i) == trim(join(Tail(split(lines[i], COLON)), COLON))
        hits == {i \in 1..Len(lines) : keyOf(i) = <<key>>}
    IN  IF hits = {} THEN <<>> ELSE valueOf(SetMax(hits))

NoMetadata == [none |-> TRUE]

extractGitHubMetadata(content) ==
    LET frontmatterEnd == indexOf(content, <<NL, FENCE, NL>>)
        frontmatter == substring(content, 2, frontmatterEnd)
        lines == split(frontmatter, NL)
        githubRepo == headerValue(lines, "github_repo")
        githubPath == headerValue(lines, "github_path")
        githubUrl == headerValue(lines, "github_url")
        repoParts == split(githubRepo, SLASH)
        urlParts == split(githubUrl, SLASH)
        blobHits == {i \in 1..Len(urlParts) : urlParts[i] = <<"blob">>}
        blobIndex == IF blobHits = {} THEN -1 ELSE SetMin(blobHits)
        branch == IF blobIndex # -1 /\ blobIndex + 1 <= Len(urlParts)
                     /\ urlParts[blobIndex + 1] # <<>>
                  THEN urlParts[blobIndex + 1]
                  ELSE <<"main">>
    IN  IF ~startsWith(content, <<FENCE, NL>>) THEN NoMetadata
        ELSE IF frontmatterEnd = -1 THEN NoMetadata
        ELSE IF githubRepo = <<>> \/ githubPath = <<>> \/ githubUrl = <<>> THEN NoMetadata
        ELSE IF repoParts[1] = <<>> \/ Len(repoParts) < 2 \/ repoParts[2] = <<>>
             THEN NoMetadata
        ELSE [none |-> FALSE, owner |-> repoParts[1], repo |-> repoParts[2],
              branch |-> branch, path |-> githubPath, githubUrl |-> githubUrl]

(***************************************************************************)
(* Backlink target (main.ts).  this.settings.baseFolder is the first       *)
(* parameter.                                                              *)
(***************************************************************************)
\* Array.prototype.pop: the array without its last element
popped(a) == SubSeq(a, 1, Len(a) - 1)

\* calculateBacklinkTarget linking to the README of the file's own directory:
\* the parent directory is not removed (sensitivity variant for C8)
calculateBacklinkTarget_ownDir(baseFolder, baseFolderPath, filePath) ==
    LET pathParts == popped(split(filePath, SLASH))
    IN  IF Len(pathParts) = 0 THEN baseFolder
        ELSE baseFolderPath \o <<SLASH>> \o join(pathParts, SLASH)
                \o <<SLASH, "README">>

calculateBacklinkTarget(baseFolder, baseFolderPath, filePath) ==
    LET pathParts == popped(split(filePath, SLASH))
        parentParts == popped(pathParts)
    IN  IF Len(pathParts) = 0 THEN baseFolder
        ELSE IF Len(parentParts) = 0 THEN baseFolderPath \o <<SLASH, "README">>
        ELSE baseFolderPath \o <<SLASH>> \o join(parentParts, SLASH)
                \o <<SLASH, "README">>

\* `${this.settings.baseFolder}/${owner}/${repo}` (syncRepository)
repoFolderPath(baseFolder, owner, repo) ==
    baseFolder \o <<SLASH>> \o owner \o <<SLASH>> \o repo

(***************************************************************************)
(* Paginated repository listing (github.ts getUserRepos, getOrgRepos: the  *)
(* two differ in the endpoint only).                                       *)
(***************************************************************************)
perPage == 100

\* the endpoint requested for a page: /users/<name>/repos or /orgs/<name>/repos
\* with per_page and page
pageRequest(kind, name, page) ==
    [kind |-> kind, name |-> name, per_page |-> perPage, page |-> page]

\* one turn of the loop after the page arrived: the repositories so far, the
\* next page number and whether the loop goes on
\* the loop leaving only on an empty page: the test of a short page is
\* missing (sensitivity variant for C9)
afterPage_onlyEmptyStops(repos, page, pageRepos) ==
    IF Len(pageRepos) = 0
    THEN [repos |-> repos, page |-> page, pc |-> "returned"]
    ELSE [repos |-> repos \o pageRepos, page |-> page + 1, pc |-> "loop"]

afterPage(repos, page, pageRepos) ==
    IF Len(pageRepos) = 0
    THEN [repos |-> repos, page |-> page, pc |-> "returned"]
    ELSE IF Len(pageRepos) < perPage
    THEN [repos |-> repos \o pageRepos, page |-> page, pc |-> "returned"]
    ELSE [repos |-> repos \o pageRepos, page |-> page + 1, pc |-> "loop"]

(***************************************************************************)
(* Filters of auto-discovery (main.ts filterRepositories).                 *)
(***************************************************************************)
STAR == "*"

\* micromatch.isMatch(name, glob) for a pattern of literal characters and '*',
\* on names without '/' and without a leading '.': '*' stands for any run of
\* characters
RECURSIVE isMatch(_, _)
isMatch(name, glob) ==
    IF glob = <<>> THEN name = <<>>
    ELSE IF Head(glob) = STAR
         THEN \/ isMatch(name, Tail(glob))
              \/ name # <<>> /\ isMatch(Tail(name), glob)
         ELSE name # <<>> /\ Head(name) = Head(glob) /\ isMatch(Tail(name), Tail(glob))

\* the callback of repos.filter
\* the callback without the test of forks (sensitivity variant for C10)
keepRepository_forksPass(repo, filters) ==
    IF ~filters.includePrivate /\ repo.private THEN FALSE
    ELSE IF ~filters.includeArchived /\ repo.archived THEN FALSE
    ELSE IF filters.repoGlob # <<>> /\ filters.repoGlob # <<STAR>>
            /\ ~isMatch(repo.name, filters.repoGlob) THEN FALSE
    ELSE TRUE

keepRepository(repo, filters) ==
    IF ~filters.includePrivate /\ repo.private THEN FALSE
    ELSE IF ~filters.includeArchived /\ repo.archived THEN FALSE
    ELSE IF ~filters.includeForks /\ repo.fork THEN FALSE
    ELSE IF filters.repoGlob # <<>> /\ filters.repoGlob # <<STAR>>
            /\ ~isMatch(repo.name, filters.repoGlob) THEN FALSE
    ELSE TRUE

\* Array.prototype.filter with that callback
RECURSIVE filterRepositories(_, _)
filterRepositories(repos, filters) ==
    IF repos = <<>> THEN <<>>
    ELSE IF keepRepository(Head(repos), filters)
         THEN <<Head(repos)>> \o filterRepositories(Tail(repos), filters)
         ELSE filterRepositories(Tail(repos), filters)

(***************************************************************************)
(* The vault (Obsidian's local file store).  A vault value is a record     *)
(*   files   : a function from the paths of the files to their contents,   *)
(*   folders : the set of the paths of the folders (the root, '', apart),  *)
(*   made    : the paths that exist because a sync created them (history), *)
(*   log     : the write operations of the current run, in order (history).*)
(* A path is a string: names with '/' between them; a file name ends with  *)
(* an extension token such as '.md'.                                       *)
(***************************************************************************)
EmptyFiles == [p \in {} |-> <<>>]

\* String.prototype.lastIndexOf for a one-token pattern
lastIndexOf(s, tok) ==
    LET hits == {i \in 0..(Len(s) - 1) : s[i + 1] = tok}
    IN  IF hits = {} THEN -1 ELSE SetMax(hits)

\* TAbstractFile.parent's path: the path up to the last '/', '' for a top-level
\* entry
parentPath(p) ==
    IF lastIndexOf(p, SLASH) = -1 THEN <<>> ELSE substring(p, 0, lastIndexOf(p, SLASH))

\* Vault.getAbstractFileByPath
isFile(v, p) == p \in DOMAIN v.files

isFolder(v, p) == p \in v.folders

exists(v, p) == isFile(v, p) \/ isFolder(v, p)

\* TFolder.children, files and folders
childFiles(v, folder) == {p \in DOMAIN v.files : parentPath(p) = folder}

childFolders(v, folder) == {p \in v.folders : parentPath(p) = folder}

\* the paths strictly below a folder
below(paths, folder) == {p \in paths : startsWith(p, folder \o <<SLASH>>)}

logged(v, op, path, phase) ==
    Append(v.log, [op |-> op, path |-> path, phase |-> phase, made |-> path \in v.made])

\* Vault.delete: the file, or the folder with whatever it holds
vaultDelete(v, p, phase) ==
    LET gone == {p} \cup below(DOMAIN v.files \cup v.folders, p)
    IN  [files |-> [q \in DOMAIN v.files \ gone |-> v.files[q]],
         folders |-> v.folders \ gone,
         made |-> v.made \ gone,
         log |-> logged(v, "delete", p, phase)]

\* Vault.create / Vault.createBinary
vaultCreate(v, p, content, phase) ==
    [files |-> [q \in DOMAIN v.files \cup {p} |-> IF q = p THEN content ELSE v.files[q]],
     folders |-> v.folders,
     made |-> v.made \cup {p},
     log |-> logged(v, "create", p, phase)]

\* Vault.modify / Vault.modifyBinary
vaultModify(v, p, content, phase) ==
    [files |-> [v.files EXCEPT ![p] = content],
     folders |-> v.folders,
     made |-> v.made,
     log |-> logged(v, "modify", p, phase)]

\* Vault.createFolder
vaultCreateFolder(v, p, phase) ==
    [files |-> v.files,
     folders |-> v.folders \cup {p},
     made |-> v.made \cup {p},
     log |-> logged(v, "createFolder", p, phase)]

\* ensureFolderExists: every missing prefix of the path is created, outermost
\* first; k counts the names of the path already seen
RECURSIVE ensureFolderFrom(_, _, _, _)
ensureFolderFrom(v, names, k, phase) ==
    IF k >= Len(names) THEN v
    ELSE LET currentPath == join(SubSeq(names, 1, k + 1), SLASH)
         IN  ensureFolderFrom(
                IF exists(v, currentPath) THEN v
                ELSE vaultCreateFolder(v, currentPath, phase),
                names, k + 1, phase)

\* the names of a path, empty ones dropped ('if (!folder) continue')
ensureFolderExists(v, path, phase) ==
    ensureFolderFrom(v, SelectSeq(split(path, SLASH), LAMBDA n : n # <<>>), 0, phase)

(***************************************************************************)
(* File kinds (github.ts isMarkdownFile, isMediaFile).                     *)
(***************************************************************************)
mediaExtensions ==
    {".png", ".jpg", ".jpeg", ".gif", ".svg", ".webp", ".bmp", ".ico",
     ".mp4", ".mov", ".avi", ".webm", ".mp3", ".wav", ".pdf"}

\* the tokens that begin with '.', the only ones that hold one
DotTokens == mediaExtensions \cup {".md", ".mdx", ".txt", ".PNG"}

\* String.prototype.toLowerCase of a token
toLowerCase(tok) == IF tok = ".PNG" THEN ".png" ELSE tok

isMarkdownFile(path) == endsWith(path, <<".md">>) \/ endsWith(path, <<".mdx">>)

\* path.toLowerCase().substring(path.lastIndexOf('.')) is one of the
\* extensions: the text from the last '.' on is a single extension token
isMediaFile(path) ==
    LET dots == {i \in 0..(Len(path) - 1) : path[i + 1] \in DotTokens}
        ext == substringFrom(path, IF dots = {} THEN -1 ELSE SetMax(dots))
    IN  Len(ext) = 1 /\ toLowerCase(ext[1]) \in mediaExtensions

(***************************************************************************)
(* Pruning engine (main.ts pruneExtraneousFiles, pruneFolder).             *)
(***************************************************************************)
\* prunesFile without the look at the header: every Markdown file outside the
\* synced-set goes (sensitivity variant for C1)
prunesFile_anyMarkdown(path, content, syncedFiles, baseFolder) ==
    IF path \in syncedFiles THEN FALSE
    ELSE IF isMarkdownFile(path) THEN TRUE
         ELSE IF isMediaFile(path)
              THEN LET pathParts == split(path, SLASH)
                   IN  Len(pathParts) >= 3 /\ pathParts[1] = baseFolder
              ELSE FALSE

\* whether pruneFolder puts a file of the folder into filesToDelete
\* (main.ts 458-479); content is what Vault.read returns
prunesFile(path, content, syncedFiles, baseFolder) ==
    IF path \in syncedFiles THEN FALSE
    ELSE IF isMarkdownFile(path)
         THEN extractGitHubMetadata(content) # NoMetadata
         ELSE IF isMediaFile(path)
              THEN LET pathParts == split(path, SLASH)
                   IN  Len(pathParts) >= 3 /\ pathParts[1] = baseFolder
              ELSE FALSE

\* Vault.delete applied to each path of a set, one after the other
RECURSIVE deleteAll(_, _, _)
deleteAll(v, paths, phase) ==
    IF paths = {} THEN v
    ELSE LET p == CHOOSE q \in paths : TRUE
         IN  deleteAll(vaultDelete(v, p, phase), paths \ {p}, phase)

RECURSIVE pruneFolder(_, _, _, _)
RECURSIVE pruneSubfolders(_, _, _, _)
pruneFolder(v, folder, syncedFiles, baseFolder) ==
    LET filesToDelete ==
            {p \in childFiles(v, folder) :
                prunesFile(p, v.files[p], syncedFiles, baseFolder)}
        foldersToCheck == childFolders(v, folder)
    IN  pruneSubfolders(deleteAll(v, filesToDelete, "prune"), foldersToCheck,
                        syncedFiles, baseFolder)

\* a second loop that deletes each subfolder after pruning it, whatever is
\* left in it
RECURSIVE pruneSubfolders_deletesAlways(_, _, _, _)
pruneSubfolders_deletesAlways(v, foldersToCheck, syncedFiles, baseFolder) ==
    IF foldersToCheck = {} THEN v
    ELSE LET subfolder == CHOOSE f \in foldersToCheck : TRUE
             v1 == pruneFolder(v, subfolder, syncedFiles, baseFolder)
         IN  pruneSubfolders_deletesAlways(vaultDelete(v1, subfolder, "prune"),
                                           foldersToCheck \ {subfolder},
                                           syncedFiles, baseFolder)

\* the second loop of pruneFolder: each subfolder is pruned, then deleted when
\* nothing is left in it
pruneSubfolders(v, foldersToCheck, syncedFiles, baseFolder) ==
    IF foldersToCheck = {} THEN v
    ELSE LET subfolder == CHOOSE f \in foldersToCheck : TRUE
             v1 == pruneFolder(v, subfolder, syncedFiles, baseFolder)
             v2 == IF childFiles(v1, subfolder) \cup childFolders(v1, subfolder) = {}
                   THEN vaultDelete(v1, subfolder, "prune")
                   ELSE v1
         IN  pruneSubfolders(v2, foldersToCheck \ {subfolder}, syncedFiles, baseFolder)

pruneExtraneousFiles(v, baseFolderPath, syncedFiles, baseFolder) ==
    IF ~isFolder(v, baseFolderPath) THEN v
    ELSE pruneFolder(v, baseFolderPath, syncedFiles, baseFolder)

(***************************************************************************)
(* The sync engine (main.ts).  An operation that can throw returns the     *)
(* vault it leaves and whether it returned (ok) or threw.  fail is the     *)
(* path at which Vault.delete rejects during the step, <<>> for none.      *)
(***************************************************************************)
NoPath == <<>>

\* `${config.owner}/${config.repo}`
repoIdOf(config) == config.owner \o <<SLASH>> \o config.repo

\* Array.prototype.includes
inList(x, list) == \E i \in 1..Len(list) : list[i] = x

\* the elements of a set as an array, in the order the vault lists them
RECURSIVE listOf(_)
listOf(S) ==
    IF S = {} THEN <<>>
    ELSE LET x == CHOOSE y \in S : TRUE IN <<x>> \o listOf(S \ {x})

\* TAbstractFile.name
nameOf(p) == substringFrom(p, lastIndexOf(p, SLASH) + 1)

\* addAutoRepos without the look at configs: every discovered repository is
\* added (sensitivity variant for C11)
RECURSIVE addAutoRepos_noCheck(_, _)
addAutoRepos_noCheck(configs, autoRepos) ==
    IF autoRepos = <<>> THEN configs
    ELSE LET repo == Head(autoRepos)
         IN  addAutoRepos_noCheck(
                Append(configs, [owner |-> repo.owner, repo |-> repo.name,
                                 branch |-> repo.default_branch,
                                 source |-> "auto"]),
                Tail(autoRepos))

\* getAllRepoConfigs, second loop: a discovered repository is added unless
\* an entry with its owner and name is in configs already
RECURSIVE addAutoRepos(_, _)
addAutoRepos(configs, autoRepos) ==
    IF autoRepos = <<>> THEN configs
    ELSE LET repo == Head(autoRepos)
             known == \E i \in 1..Len(configs) :
                         configs[i].owner = repo.owner /\ configs[i].repo = repo.name
         IN  addAutoRepos(
                IF known THEN configs
                ELSE Append(configs, [owner |-> repo.owner, repo |-> repo.name,
                                      branch |-> repo.default_branch,
                                      source |-> "auto"]),
                Tail(autoRepos))

\* discoverRepositories giving up at the first namespace that fails
\* (sensitivity variant for C13)
RECURSIVE discoverRepositories_stopsAtFailure(_, _, _)
discoverRepositories_stopsAtFailure(namespaces, answers, autoDefaults) ==
    IF namespaces = <<>> \/ ~Head(answers).ok THEN <<>>
    ELSE LET answer == Head(answers)
             found == IF Len(answer.repos) = 0 THEN <<>>
                      ELSE filterRepositories(answer.repos, autoDefaults)
         IN  found \o discoverRepositories_stopsAtFailure(Tail(namespaces),
                                                          Tail(answers), autoDefaults)

\* discoverRepositories: answers[i] is what GitHub returns for the i-th
\* namespace, [ok, repos]; ok is false when the user and the organisation
\* listing both fail
RECURSIVE discoverRepositories(_, _, _)
discoverRepositories(namespaces, answers, autoDefaults) ==
    IF namespaces = <<>> THEN <<>>
    ELSE LET answer == Head(answers)
             found == IF ~answer.ok \/ Len(answer.repos) = 0 THEN <<>>
                      ELSE filterRepositories(answer.repos, autoDefaults)
         IN  found \o discoverRepositories(Tail(namespaces), Tail(answers),
                                           autoDefaults)

getAllRepoConfigs(s, answers) ==
    LET manual == [i \in 1..Len(s.repos) |->
                      [owner |-> s.repos[i].owner,
                       repo |-> s.repos[i].repo,
                       branch |-> IF s.repos[i].branch = <<>> THEN <<"main">>
                                  ELSE s.repos[i].branch,
                       source |-> "manual"]]
    IN  IF Len(s.namespaces) > 0
        THEN addAutoRepos(manual,
                discoverRepositories(s.namespaces, answers, s.autoDefaults))
        ELSE manual

\* getAllSyncableFiles, the filter over the tree GitHub returned
getAllSyncableFiles_mediaAlways(tree, includeMedia) ==
    SelectSeq(tree, LAMBDA item :
        /\ item.type = "blob"
        /\ \/ isMarkdownFile(item.path)
           \/ isMediaFile(item.path))

getAllSyncableFiles(tree, includeMedia) ==
    SelectSeq(tree, LAMBDA item :
        /\ item.type = "blob"
        /\ \/ isMarkdownFile(item.path)
           \/ includeMedia /\ isMediaFile(item.path))

\* getLocalFilePath keeping only the name of the remote file (sensitivity
\* variant for C30)
getLocalFilePath_flat(baseFolderPath, githubPath) ==
    baseFolderPath \o <<SLASH>> \o nameOf(githubPath)

\* `${baseFolderPath}/${githubPath}`
getLocalFilePath(baseFolderPath, githubPath) == baseFolderPath \o <<SLASH>> \o githubPath

syncFile_alwaysWrites(v, s, config, item, baseFolderPath, t, fault) ==
    LET localFilePath == getLocalFilePath(baseFolderPath, item.path)
        v1 == ensureFolderExists(
                v, substring(localFilePath, 0, lastIndexOf(localFilePath, SLASH)),
                "sync")
        metadata == [owner |-> config.owner, repo |-> config.repo,
                     branch |-> config.branch, path |-> item.path,
                     githubUrl |-> buildFileUrl(config.owner, config.repo,
                                                item.path, config.branch)]
        backlinkTarget ==
            IF s.addBacklinks
            THEN calculateBacklinkTarget(s.baseFolder, baseFolderPath, item.path)
            ELSE <<>>
        processedContent ==
            processFileContent(item.content, metadata,
                [addFrontmatter |-> s.addFrontmatter,
                 addReadonlyBanner |-> s.addReadonlyBanner,
                 addBacklinks |-> s.addBacklinks,
                 backlinkTarget |-> backlinkTarget], t)
        shouldUpdate == TRUE
    IN  IF fault = "noclient" THEN [v |-> v, ok |-> TRUE]
        ELSE IF fault = "fetch" THEN [v |-> v, ok |-> FALSE]
        ELSE IF isMediaFile(item.path)
        THEN IF fault = "write" \/ isFolder(v1, localFilePath)
             THEN [v |-> v1, ok |-> FALSE]
             ELSE IF exists(v1, localFilePath)
                  THEN [v |-> vaultModify(v1, localFilePath, item.content, "sync"),
                        ok |-> TRUE]
                  ELSE [v |-> vaultCreate(v1, localFilePath, item.content, "sync"),
                        ok |-> TRUE]
        ELSE IF ~shouldUpdate THEN [v |-> v1, ok |-> TRUE]
        ELSE IF fault = "write" \/ isFolder(v1, localFilePath)
             THEN [v |-> v1, ok |-> FALSE]
             ELSE IF exists(v1, localFilePath)
                  THEN [v |-> vaultModify(v1, localFilePath, processedContent, "sync"),
                        ok |-> TRUE]
                  ELSE [v |-> vaultCreate(v1, localFilePath, processedContent, "sync"),
                        ok |-> TRUE]

\* syncFile leaving a binary file alone when the bytes on disk are the bytes
\* fetched (sensitivity variant for C28)
syncFile_comparesBinary(v, s, config, item, baseFolderPath, t, fault) ==
    LET localFilePath == getLocalFilePath(baseFolderPath, item.path)
        v1 == ensureFolderExists(
                v, substring(localFilePath, 0, lastIndexOf(localFilePath, SLASH)),
                "sync")
        metadata == [owner |-> config.owner, repo |-> config.repo,
                     branch |-> config.branch, path |-> item.path,
                     githubUrl |-> buildFileUrl(config.owner, config.repo,
                                                item.path, config.branch)]
        backlinkTarget ==
            IF s.addBacklinks
            THEN calculateBacklinkTarget(s.baseFolder, baseFolderPath, item.path)
            ELSE <<>>
        processedContent ==
            processFileContent(item.content, metadata,
                [addFrontmatter |-> s.addFrontmatter,
                 addReadonlyBanner |-> s.addReadonlyBanner,
                 addBacklinks |-> s.addBacklinks,
                 backlinkTarget |-> backlinkTarget], t)
        shouldUpdate ==
            IF isFile(v1, localFilePath)
            THEN processedContent # v1.files[localFilePath]
            ELSE TRUE
    IN  IF fault = "noclient" THEN [v |-> v, ok |-> TRUE]
        ELSE IF fault = "fetch" THEN [v |-> v, ok |-> FALSE]
        ELSE IF isMediaFile(item.path)
        THEN IF fault = "write" \/ isFolder(v1, localFilePath)
             THEN [v |-> v1, ok |-> FALSE]
             ELSE IF isFile(v1, localFilePath) /\ v1.files[localFilePath] = item.content
                  THEN [v |-> v1, ok |-> TRUE]
             ELSE IF exists(v1, localFilePath)
                  THEN [v |-> vaultModify(v1, localFilePath, item.content, "sync"),
                        ok |-> TRUE]
                  ELSE [v |-> vaultCreate(v1, localFilePath, item.content, "sync"),
                        ok |-> TRUE]
        ELSE IF ~shouldUpdate THEN [v |-> v1, ok |-> TRUE]
        ELSE IF fault = "write" \/ isFolder(v1, localFilePath)
             THEN [v |-> v1, ok |-> FALSE]
             ELSE IF exists(v1, localFilePath)
                  THEN [v |-> vaultModify(v1, localFilePath, processedContent, "sync"),
                        ok |-> TRUE]
                  ELSE [v |-> vaultCreate(v1, localFilePath, processedContent, "sync"),
                        ok |-> TRUE]

\* syncFile: fault is "none", "noclient" (this.github is null at the call:
\* the token was cleared in the settings tab while the run was waiting),
\* "fetch" (getFileContent throws) or "write" (the
\* vault rejects the write); blobs arrive base64-encoded, so the content is
\* binary exactly for media paths
syncFile(v, s, config, item, baseFolderPath, t, fault) ==
    LET localFilePath == getLocalFilePath(baseFolderPath, item.path)
        v1 == ensureFolderExists(
                v, substring(localFilePath, 0, lastIndexOf(localFilePath, SLASH)),
                "sync")
        metadata == [owner |-> config.owner, repo |-> config.repo,
                     branch |-> config.branch, path |-> item.path,
                     githubUrl |-> buildFileUrl(config.owner, config.repo,
                                                item.path, config.branch)]
        backlinkTarget ==
            IF s.addBacklinks
            THEN calculateBacklinkTarget(s.baseFolder, baseFolderPath, item.path)
            ELSE <<>>
        processedContent ==
            processFileContent(item.content, metadata,
                [addFrontmatter |-> s.addFrontmatter,
                 addReadonlyBanner |-> s.addReadonlyBanner,
                 addBacklinks |-> s.addBacklinks,
                 backlinkTarget |-> backlinkTarget], t)
        shouldUpdate ==
            IF isFile(v1, localFilePath)
            THEN processedContent # v1.files[localFilePath]
            ELSE TRUE
    IN  IF fault = "noclient" THEN [v |-> v, ok |-> TRUE]
        ELSE IF fault = "fetch" THEN [v |-> v, ok |-> FALSE]
        ELSE IF isMediaFile(item.path)
        THEN IF fault = "write" \/ isFolder(v1, localFilePath)
             THEN [v |-> v1, ok |-> FALSE]
             ELSE IF exists(v1, localFilePath)
                  THEN [v |-> vaultModify(v1, localFilePath, item.content, "sync"),
                        ok |-> TRUE]
                  ELSE [v |-> vaultCreate(v1, localFilePath, item.content, "sync"),
                        ok |-> TRUE]
        ELSE IF ~shouldUpdate THEN [v |-> v1, ok |-> TRUE]
        ELSE IF fault = "write" \/ isFolder(v1, localFilePath)
             THEN [v |-> v1, ok |-> FALSE]
             ELSE IF exists(v1, localFilePath)
                  THEN [v |-> vaultModify(v1, localFilePath, processedContent, "sync"),
                        ok |-> TRUE]
                  ELSE [v |-> vaultCreate(v1, localFilePath, processedContent, "sync"),
                        ok |-> TRUE]

\* the loop of syncRepository over syncableFiles from the k-th on: the vault
\* and the synced-set; faults[k] is the fault met at the k-th file
RECURSIVE syncFiles_stopsAtFailure(_, _, _, _, _, _, _, _, _)
syncFiles_stopsAtFailure(v, syncedFiles, s, config, syncableFiles, k, baseFolderPath, t, faults) ==
    IF k > Len(syncableFiles) THEN [v |-> v, syncedFiles |-> syncedFiles]
    ELSE LET r == syncFile(v, s, config, syncableFiles[k], baseFolderPath, t,
                           faults[k])
         IN  IF ~r.ok THEN [v |-> r.v, syncedFiles |-> syncedFiles]
             ELSE syncFiles_stopsAtFailure(r.v,
                    syncedFiles \cup
                      {getLocalFilePath(baseFolderPath, syncableFiles[k].path)},
                    s, config, syncableFiles, k + 1, baseFolderPath, t, faults)

RECURSIVE syncFiles(_, _, _, _, _, _, _, _, _)
syncFiles(v, syncedFiles, s, config, syncableFiles, k, baseFolderPath, t, faults) ==
    IF k > Len(syncableFiles) THEN [v |-> v, syncedFiles |-> syncedFiles]
    ELSE LET r == syncFile(v, s, config, syncableFiles[k], baseFolderPath, t,
                           faults[k])
         IN  syncFiles(r.v,
                IF r.ok
                THEN syncedFiles \cup
                       {getLocalFilePath(baseFolderPath, syncableFiles[k].path)}
                ELSE syncedFiles,
                s, config, syncableFiles, k + 1, baseFolderPath, t, faults)

\* syncRepository pruning whatever the toggle says (sensitivity variant for
\* C37)
syncRepository_alwaysPrunes(v, s, config, listed, tree, t, faults) ==
    LET syncableFiles == getAllSyncableFiles(tree, s.syncMediaFiles)
        baseFolderPath == repoFolderPath(s.baseFolder, config.owner, config.repo)
        r == syncFiles(ensureFolderExists(v, baseFolderPath, "sync"), {}, s, config,
                       syncableFiles, 1, baseFolderPath, t, faults)
    IN  IF ~listed THEN [v |-> v, ok |-> FALSE, syncedFiles |-> {}]
        ELSE IF Len(syncableFiles) = 0
        THEN [v |-> v, ok |-> TRUE, syncedFiles |-> {}]
        ELSE [v |-> pruneExtraneousFiles(r.v, baseFolderPath, r.syncedFiles,
                                         s.baseFolder),
              ok |-> TRUE, syncedFiles |-> r.syncedFiles]

\* syncRepository (syncedFiles: the synced-set as the loop left it): listed
\* is whether getAllSyncableFiles returned, tree the
\* tree GitHub holds for the branch
syncRepository(v, s, config, listed, tree, t, faults) ==
    LET syncableFiles == getAllSyncableFiles(tree, s.syncMediaFiles)
        baseFolderPath == repoFolderPath(s.baseFolder, config.owner, config.repo)
        r == syncFiles(ensureFolderExists(v, baseFolderPath, "sync"), {}, s, config,
                       syncableFiles, 1, baseFolderPath, t, faults)
    IN  IF ~listed THEN [v |-> v, ok |-> FALSE, syncedFiles |-> {}]
        ELSE IF Len(syncableFiles) = 0
        THEN [v |-> v, ok |-> TRUE, syncedFiles |-> {}]
        ELSE IF s.pruneExtraneousFiles
             THEN [v |-> pruneExtraneousFiles(r.v, baseFolderPath, r.syncedFiles,
                                              s.baseFolder),
                   ok |-> TRUE, syncedFiles |-> r.syncedFiles]
             ELSE [v |-> r.v, ok |-> TRUE, syncedFiles |-> r.syncedFiles]

\* Vault.delete that rejects at the path fail
tryDelete(v, p, phase, fail) ==
    IF p = fail THEN [v |-> v, ok |-> FALSE]
    ELSE [v |-> vaultDelete(v, p, phase), ok |-> TRUE]

\* recursiveDeleteFolder: the children first (todo: those not yet visited),
\* then the folder itself; the first rejected delete ends it
RECURSIVE recursiveDeleteFrom(_, _, _, _)
recursiveDeleteFrom(v, folder, todo, fail) ==
    IF todo = {}
    THEN tryDelete(v, folder, "cleanup", fail)
    ELSE LET child == CHOOSE c \in todo : TRUE
             r == IF isFile(v, child)
                  THEN tryDelete(v, child, "cleanup", fail)
                  ELSE recursiveDeleteFrom(v, child,
                          childFiles(v, child) \cup childFolders(v, child), fail)
         IN  IF r.ok THEN recursiveDeleteFrom(r.v, folder, todo \ {child}, fail)
             ELSE r

recursiveDeleteFolder(v, folder, fail) ==
    recursiveDeleteFrom(v, folder,
                        childFiles(v, folder) \cup childFolders(v, folder), fail)

\* scanExistingRepositories: owner/name for every folder two levels below the
\* base folder
scanExistingRepositories(v, baseFolder) ==
    IF ~isFolder(v, baseFolder) THEN <<>>
    ELSE listOf({ nameOf(parentPath(repoChild)) \o <<SLASH>> \o nameOf(repoChild) :
                    repoChild \in
                      UNION { childFolders(v, ownerChild) :
                                ownerChild \in childFolders(v, baseFolder) } })

\* removedRepoIdsOf with the scan not narrowed to the folders outside the
\* current ids (sensitivity variant for C4)
removedRepoIdsOf_allExisting(v, s, currentRepoIds) ==
    LET previousRepoIds == s.lastSyncedRepos
        removed == SelectSeq(previousRepoIds, LAMBDA id : ~inList(id, currentRepoIds))
    IN  removed \o scanExistingRepositories(v, s.baseFolder)

\* removedRepoIds of cleanupRemovedRepositories (main.ts 502-514)
removedRepoIdsOf(v, s, currentRepoIds) ==
    LET previousRepoIds == s.lastSyncedRepos
        removed == SelectSeq(previousRepoIds, LAMBDA id : ~inList(id, currentRepoIds))
        untrackedExistingRepos ==
            SelectSeq(scanExistingRepositories(v, s.baseFolder),
                      LAMBDA id : ~inList(id, currentRepoIds))
    IN  removed \o untrackedExistingRepos

\* cleanupOne deleting the owner folder whatever it still holds
\* (sensitivity variant for C25)
cleanupOne_ownerAlways(v, s, repoId, fail) ==
    LET parts == split(repoId, SLASH)
        owner == parts[1]
        repo == parts[2]
        repoFolder == repoFolderPath(s.baseFolder, owner, repo)
        v1 == IF isFolder(v, repoFolder)
              THEN recursiveDeleteFolder(v, repoFolder, fail).v
              ELSE v
        ownerFolderPath == s.baseFolder \o <<SLASH>> \o owner
    IN  IF Len(parts) < 2 \/ owner = <<>> \/ repo = <<>> THEN v
        ELSE IF isFolder(v1, ownerFolderPath)
             THEN tryDelete(v1, ownerFolderPath, "cleanup", fail).v
             ELSE v1

\* the body of the loop of cleanupRemovedRepositories for one id; a rejected
\* delete is caught and logged
cleanupOne(v, s, repoId, fail) ==
    LET parts == split(repoId, SLASH)
        owner == parts[1]
        repo == parts[2]
        repoFolder == repoFolderPath(s.baseFolder, owner, repo)
        v1 == IF isFolder(v, repoFolder)
              THEN recursiveDeleteFolder(v, repoFolder, fail).v
              ELSE v
        ownerFolderPath == s.baseFolder \o <<SLASH>> \o owner
    IN  IF Len(parts) < 2 \/ owner = <<>> \/ repo = <<>> THEN v
        ELSE IF /\ isFolder(v1, ownerFolderPath)
                /\ childFiles(v1, ownerFolderPath) \cup childFolders(v1, ownerFolderPath) = {}
             THEN tryDelete(v1, ownerFolderPath, "cleanup", fail).v
             ELSE v1

\* cleanupEach giving up at the first repository folder that is still there
\* after its delete (sensitivity variant for C26)
RECURSIVE cleanupEach_stopsAtFailure(_, _, _, _)
cleanupEach_stopsAtFailure(v, s, removedRepoIds, fail) ==
    IF removedRepoIds = <<>> THEN v
    ELSE LET v1 == cleanupOne(v, s, Head(removedRepoIds), fail)
         IN  IF isFolder(v1, s.baseFolder \o <<SLASH>> \o Head(removedRepoIds))
             THEN v1
             ELSE cleanupEach_stopsAtFailure(v1, s, Tail(removedRepoIds), fail)

RECURSIVE cleanupEach(_, _, _, _)
cleanupEach(v, s, removedRepoIds, fail) ==
    IF removedRepoIds = <<>> THEN v
    ELSE cleanupEach(cleanupOne(v, s, Head(removedRepoIds), fail), s,
                     Tail(removedRepoIds), fail)

cleanupRemovedRepositories(v, s, currentRepoIds, fail) ==
    cleanupEach(v, s, removedRepoIdsOf(v, s, currentRepoIds), fail)

(***************************************************************************)
(* Namespace lookups (main.ts discoverRepositories, 203-215).              *)
(***************************************************************************)
\* a listing request that throws
Failed == [ok |-> FALSE, repos |-> <<>>]

\* what one namespace yields: the user listing, or when that fails the
\* organisation listing; ok is false when both fail
lookupNamespace(userAnswer, orgAnswer) ==
    IF userAnswer.ok THEN userAnswer ELSE orgAnswer

\* discoveryRequests asking for both listings of every namespace
\* (sensitivity variant for C34)
RECURSIVE discoveryRequests_both(_, _)
discoveryRequests_both(namespaces, lookups) ==
    IF namespaces = <<>> THEN <<>>
    ELSE <<[kind |-> "users", name |-> Head(namespaces)],
           [kind |-> "orgs", name |-> Head(namespaces)]>>
         \o discoveryRequests_both(Tail(namespaces), Tail(lookups))

\* the listings requested for the namespaces, in order: the user listing of
\* each, and the organisation listing after a failed user listing
RECURSIVE discoveryRequests(_, _)
discoveryRequests(namespaces, lookups) ==
    IF namespaces = <<>> THEN <<>>
    ELSE (IF Head(lookups).user.ok
          THEN <<[kind |-> "users", name |-> Head(namespaces)]>>
          ELSE <<[kind |-> "users", name |-> Head(namespaces)],
                 [kind |-> "orgs", name |-> Head(namespaces)]>>)
         \o discoveryRequests(Tail(namespaces), Tail(lookups))

(***************************************************************************)
(* State.                                                                  *)
(***************************************************************************)
VARIABLES
    now,        \* the clock read by new Date()
    \* the codec applied to one document
    body,       \* the document the codec was first given
    meta,       \* the FileMetadata of the document
    options,    \* the toggles handed to processFileContent
    doc,        \* the document after the operations applied so far
    prev,       \* the document before the last operation
    hist,       \* the operations applied so far
    \* calculateBacklinkTarget applied to one path
    blIn,       \* [baseFolder, owner, repo, dirs, file]: the folder setting, the
                \* repository and the remote path as directories and file name
    blTarget,   \* the target computed, <<>> before
    blPc,       \* "init" | "done"
    blChain,    \* the directories of the files the backlinks led through so far
    \* one call of getUserRepos or getOrgRepos
    pgCall,     \* [kind, name]: "users" or "orgs", and the namespace
    pgPage,     \* page
    pgRepos,    \* repos
    pgRequests, \* the requests issued so far, in order
    pgPages,    \* the pages received so far, in order
    pgPc,       \* "loop" | "returned" | "failed"
    \* one call of filterRepositories
    flRepos,    \* repos
    flFilters,  \* filters (settings.autoDefaults)
    flOut,      \* the array returned
    flPc,       \* "init" | "done"
    \* the plugin and its vault
    vault,      \* the local files and folders (see the vault operators)
    settings,   \* this.settings
    \* one call of pruneExtraneousFiles
    prCall,     \* [baseFolderPath, syncedFiles]: the arguments
    prBefore,   \* the vault when the call was made
    prPc,       \* "init" | "done"
    \* GitHub and the runs of syncAll
    remote,     \* for each repository id, the tree of its branch with the blobs
    syPc,       \* where syncAll stands: "idle" | "cleanup" | "repos"
    repoConfigs,\* repoConfigs of the run
    syIndex,    \* the position in repoConfigs of the repository synced next
    syCount,    \* [synced, errors]: syncedCount and errorCount
    syNotices,  \* the Notices shown by the run, in order
    syFaulted,  \* a request or a vault operation has failed (history): a
                \* behaviour meets one failure at most
    syChanged,  \* something was changed from outside (history): a behaviour
                \* sees one such change at most
    syDirty,    \* something was changed from outside since the last run began
    syCur,      \* the current or last run (history, see RunInfo)
    syPrev,     \* the run before it (history)
    \* one call of getAllRepoConfigs
    rsLookups,  \* for each namespace what GitHub answers: [user, org], each an
                \* answer [ok, repos]
    rsOut,      \* [configs, autoRepos, requests]: the list returned, what
                \* discoverRepositories returned, the listings requested
    rsPc,       \* "init" | "done"
    \* the two triggers of syncAll
    syncInterval,   \* whether the timer of setupAutoSync is set
    ovRuns,     \* for the timer and for the sync-now command, where the
                \* syncAll it started stands
    \* one listing of a repository's tree
    lsTree,     \* the entries GitHub returns for the tree, each labelled with
                \* what it is
    lsMedia,    \* the includeMedia argument
    lsOut,      \* what getAllSyncableFiles returned
    lsPc,       \* "init" | "done"
    \* the timer of the automatic sync
    tmSettings, \* [autoSync, syncIntervalHours] of the settings
    tmPlugin,   \* [syncInterval, timers, issued]: the handle the plugin holds
                \* (0 for null), the interval timers registered with the
                \* window, the number of handles the window has issued
    tmLast      \* the last call: "onload" | "saveSettings" | "onunload"

codecVars == <<body, meta, options, doc, prev, hist>>

backlinkVars == <<blIn, blTarget, blPc, blChain>>

pagingVars == <<pgCall, pgPage, pgRepos, pgRequests, pgPages, pgPc>>

filterVars == <<flRepos, flFilters, flOut, flPc>>

localVars == <<vault, settings>>

pruneVars == <<prCall, prBefore, prPc>>

syncVars == <<remote, syPc, repoConfigs, syIndex, syCount, syNotices, syFaulted,
              syChanged, syDirty, syCur, syPrev>>

resolveVars == <<rsLookups, rsOut, rsPc>>
overlapVars == <<syncInterval, ovRuns>>
listingVars == <<lsTree, lsMedia, lsOut, lsPc>>
timerVars == <<tmSettings, tmPlugin, tmLast>>

vars == <<now, codecVars, backlinkVars, pagingVars, filterVars, localVars, pruneVars,
          syncVars, resolveVars, overlapVars, listingVars, timerVars>>

\* what the operations of one component leave alone
notCodec == <<backlinkVars, pagingVars, filterVars, localVars, pruneVars,
    syncVars, resolveVars, overlapVars, listingVars, timerVars>>

notBacklink == <<now, codecVars, pagingVars, filterVars, localVars, pruneVars,
    syncVars, resolveVars, overlapVars, listingVars, timerVars>>

notPaging == <<now, codecVars, backlinkVars, filterVars, localVars, pruneVars,
    syncVars, resolveVars, overlapVars, listingVars, timerVars>>

notFilter == <<now, codecVars, backlinkVars, pagingVars, localVars, pruneVars,
    syncVars, resolveVars, overlapVars, listingVars, timerVars>>

notPrune == <<now, codecVars, backlinkVars, pagingVars, filterVars, settings, syncVars,
    resolveVars, overlapVars, listingVars, timerVars>>

notSync == <<codecVars, backlinkVars, pagingVars, filterVars, pruneVars, resolveVars,
    overlapVars, listingVars, timerVars>>

notResolve == <<now, codecVars, backlinkVars, pagingVars, filterVars, localVars,
    pruneVars, syncVars, overlapVars, listingVars, timerVars>>

notOverlap == <<codecVars, backlinkVars, pagingVars, filterVars, pruneVars, syncVars,
    resolveVars, listingVars, timerVars>>

notListing == <<now, codecVars, backlinkVars, pagingVars, filterVars, localVars,
    pruneVars, syncVars, resolveVars, overlapVars, timerVars>>

notTimer == <<now, codecVars, backlinkVars, pagingVars, filterVars, localVars,
    pruneVars, syncVars, resolveVars, overlapVars, listingVars>>

(***************************************************************************)
(* The codec applied to bounded documents.                                 *)
(***************************************************************************)
\* the pieces documents are built from
Chunks ==
    { <<"a">>, <<NL>>, <<SP>>, <<FENCE>>, <<FENCE, NL>>, <<NL, NL>>, <<WARN>>,
      <<FENCE, NL, FENCE, NL>>,
      <<BLOPEN, "x", BLCLOSE>>,
      <<"github_repo", COLON, SP, "o1", SLASH, "r1", NL>> }

RECURSIVE DocsOf(_)
DocsOf(n) ==
    IF n = 0 THEN {<<>>}
    ELSE LET shorter == DocsOf(n - 1)
         IN  shorter \cup {c \o d : c \in Chunks, d \in shorter}

Bodies == DocsOf(MaxParts)

BaseFolder == <<"Projects">>

MetaOf(owner, repo, branch, path) ==
    [owner |-> owner, repo |-> repo, branch |-> branch, path |-> path,
     githubUrl |-> buildFileUrl(owner, repo, path, branch)]

CodecMetas ==
    { MetaOf(<<"o1">>, <<"r1">>, <<"main">>, <<"README", ".md">>),
      MetaOf(<<"o1">>, <<"r1">>, <<"main">>, <<"docs", SLASH, "guide", ".md">>),
      \* a branch whose name holds a slash
      MetaOf(<<"o1">>, <<"r1">>, <<"release", SLASH, "v1">>, <<"README", ".md">>) }

\* the options syncFile builds from the settings (main.ts 334-345)
OptionsOf(addFrontmatter, addBanner, addBacklinks, metadata) ==
    [addFrontmatter |-> addFrontmatter,
     addReadonlyBanner |-> addBanner,
     addBacklinks |-> addBacklinks,
     backlinkTarget |->
        IF addBacklinks
        THEN calculateBacklinkTarget(BaseFolder,
                repoFolderPath(BaseFolder, metadata.owner, metadata.repo),
                metadata.path)
        ELSE <<>>]

CodecIdle ==
    /\ body = <<>> /\ meta = <<>> /\ options = <<>>
    /\ doc = <<>> /\ prev = <<>> /\ hist = <<>>

CodecInit ==
    /\ now = 0
    /\ body \in Bodies
    /\ meta \in CodecMetas
    /\ \E f, b, l \in BOOLEAN : options = OptionsOf(f, b, l, meta)
    /\ doc = body
    /\ prev = body
    /\ hist = <<>>

\* processFileContent applied to the document, a first and a second time
CodecProcess ==
    /\ hist \in {<<>>, <<"process">>}
    /\ now < MaxClock
    /\ doc' = processFileContent(doc, meta, options, now)
    /\ prev' = doc
    /\ hist' = Append(hist, "process")
    /\ now' = now + 1
    /\ UNCHANGED <<body, meta, options>>
    /\ UNCHANGED notCodec

\* stripSyncedContent applied to a processed document
CodecStrip ==
    /\ hist = <<"process">>
    /\ doc' = stripSyncedContent(doc)
    /\ prev' = doc
    /\ hist' = Append(hist, "strip")
    /\ UNCHANGED <<now, body, meta, options>>
    /\ UNCHANGED notCodec

\* addReadonlyBanner applied alone
CodecBanner ==
    /\ hist = <<>>
    /\ doc' = addReadonlyBanner(doc, meta)
    /\ prev' = doc
    /\ hist' = Append(hist, "banner")
    /\ UNCHANGED <<now, body, meta, options>>
    /\ UNCHANGED notCodec

CodecNext == CodecProcess \/ CodecStrip \/ CodecBanner

(***************************************************************************)
(* calculateBacklinkTarget applied to bounded paths.                       *)
(***************************************************************************)
MaxDepth == 3

DirNames == {"docs", "guides"}

FileNames == {<<"README", ".md">>, <<"guide", ".md">>}

RECURSIVE DirsOf(_)
DirsOf(n) ==
    IF n = 0 THEN {<<>>}
    ELSE LET shorter == DirsOf(n - 1)
         IN  shorter \cup {<<d>> \o ds : d \in DirNames, ds \in shorter}

\* the remote path of a file: its directories and its name, '/' between
RECURSIVE remotePath(_, _)
remotePath(dirs, file) ==
    IF dirs = <<>> THEN file
    ELSE <<Head(dirs), SLASH>> \o remotePath(Tail(dirs), file)

BacklinkIdle == blIn = <<>> /\ blTarget = <<>> /\ blPc = "idle" /\ blChain = <<>>

BacklinkInit ==
    /\ blIn \in [baseFolder : {<<"Projects">>, <<"Notes", SLASH, "Projects">>},
                 owner : {<<"o1">>, <<"o2">>},
                 repo : {<<"r1">>, <<"r2">>},
                 dirs : DirsOf(MaxDepth),
                 file : FileNames]
    /\ blTarget = <<>>
    /\ blPc = "init"
    /\ blChain = <<>>

\* syncFile computing the backlink target of a file (main.ts 334-338)
BacklinkCompute ==
    /\ blPc = "init"
    /\ blTarget' = calculateBacklinkTarget(blIn.baseFolder,
                        repoFolderPath(blIn.baseFolder, blIn.owner, blIn.repo),
                        remotePath(blIn.dirs, blIn.file))
    /\ blPc' = "done"
    /\ blChain' = Append(blChain, blIn.dirs)
    /\ UNCHANGED blIn
    /\ UNCHANGED notBacklink

\* the directories of the note a target under the repository folder names:
\* [[<repository folder>/<directories>/README]]
targetDirs(baseFolderPath, target) ==
    LET names == split(substringFrom(target, Len(baseFolderPath) + 1), SLASH)
    IN  [i \in 1..(Len(names) - 1) |-> names[i][1]]

\* the backlink is followed: the file in hand is now the README.md the target
\* names, under the same repository
BacklinkFollow ==
    /\ blPc = "done"
    /\ blTarget # blIn.baseFolder
    /\ blIn' = [blIn EXCEPT
                  !.dirs = targetDirs(repoFolderPath(blIn.baseFolder, blIn.owner,
                                                     blIn.repo), blTarget),
                  !.file = <<"README", ".md">>]
    /\ blPc' = "init"
    /\ UNCHANGED <<blTarget, blChain>>
    /\ UNCHANGED notBacklink

BacklinkNext == BacklinkCompute \/ BacklinkFollow

(***************************************************************************)
(* getUserRepos / getOrgRepos against a server that answers each request   *)
(* with a page of any length up to per_page, or with an error.             *)
(***************************************************************************)
MaxPages == 3

PageLengths == {0, 1, 2, perPage - 2, perPage - 1, perPage}

\* the n repositories of page p, told apart by their position in the listing
PageOf(p, n) == [k \in 1..n |-> (p - 1) * perPage + k]

PagingIdle ==
    /\ pgCall = <<>> /\ pgPage = 0 /\ pgRepos = <<>>
    /\ pgRequests = <<>> /\ pgPages = <<>> /\ pgPc = "idle"

PagingInit ==
    /\ pgCall \in [kind : {"users", "orgs"}, name : {"n1", "n2", "n3"}]
    /\ pgPage = 1
    /\ pgRepos = <<>>
    /\ pgRequests = <<>>
    /\ pgPages = <<>>
    /\ pgPc = "loop"

\* one turn of the loop: the request is answered with a page
PagingAnswer ==
    /\ pgPc = "loop"
    /\ pgPage <= MaxPages
    /\ \E n \in PageLengths :
        LET pageRepos == PageOf(pgPage, n)
            next == afterPage(pgRepos, pgPage, pageRepos)
        IN  /\ pgRequests' = Append(pgRequests, pageRequest(pgCall.kind, pgCall.name, pgPage))
            /\ pgPages' = Append(pgPages, pageRepos)
            /\ pgRepos' = next.repos
            /\ pgPage' = next.page
            /\ pgPc' = next.pc
    /\ UNCHANGED pgCall
    /\ UNCHANGED notPaging

\* one turn of the loop: the request fails and the call throws
PagingError ==
    /\ pgPc = "loop"
    /\ pgPage <= MaxPages
    /\ pgRequests' = Append(pgRequests, pageRequest(pgCall.kind, pgCall.name, pgPage))
    /\ pgPc' = "failed"
    /\ UNCHANGED <<pgCall, pgPage, pgRepos, pgPages>>
    /\ UNCHANGED notPaging

PagingNext == PagingAnswer \/ PagingError

(***************************************************************************)
(* filterRepositories applied to bounded lists of repositories.            *)
(***************************************************************************)
MaxFilterRepos == 3

\* GitHubRepo, the fields the filters read
FilterRepoPool ==
    [name : {<<"a", "b">>, <<"b", "a">>},
     private : BOOLEAN, fork : BOOLEAN, archived : BOOLEAN]

RECURSIVE ListsOf(_, _)
ListsOf(S, n) ==
    IF n = 0 THEN {<<>>}
    ELSE LET shorter == ListsOf(S, n - 1)
         IN  shorter \cup {<<x>> \o l : x \in S, l \in shorter}

\* AutoDefaults; the settings tab stores '*' for an empty pattern
\* (settings.ts 180), so the pattern is never empty
FilterConfigs ==
    [includePrivate : BOOLEAN, includeForks : BOOLEAN, includeArchived : BOOLEAN,
     repoGlob : {<<STAR>>, <<"a", STAR>>, <<STAR, "a">>, <<"a", "b">>}]

FilterIdle == flRepos = <<>> /\ flFilters = <<>> /\ flOut = <<>> /\ flPc = "idle"

FilterInit ==
    /\ flRepos \in ListsOf(FilterRepoPool, MaxFilterRepos)
    /\ flFilters \in FilterConfigs
    /\ flOut = <<>>
    /\ flPc = "init"

\* discoverRepositories applying the filters (main.ts 222)
FilterApply ==
    /\ flPc = "init"
    /\ flOut' = filterRepositories(flRepos, flFilters)
    /\ flPc' = "done"
    /\ UNCHANGED <<flRepos, flFilters>>
    /\ UNCHANGED notFilter

FilterNext == FilterApply

(***************************************************************************)
(* The plugin's settings and vault.                                        *)
(***************************************************************************)
\* settings.ts DEFAULT_SETTINGS
DEFAULT_SETTINGS ==
    [githubToken |-> <<>>,
     namespaces |-> <<>>,
     autoDefaults |-> [includePrivate |-> FALSE, includeForks |-> FALSE,
                       includeArchived |-> FALSE, repoGlob |-> <<STAR>>],
     repos |-> <<>>,
     addFrontmatter |-> TRUE,
     addReadonlyBanner |-> TRUE,
     addBacklinks |-> TRUE,
     pruneExtraneousFiles |-> FALSE,
     baseFolder |-> <<"Projects">>,
     syncMediaFiles |-> FALSE,
     lastSyncedRepos |-> <<>>,
     lastSyncTime |-> "null"]

EmptyVault == [files |-> EmptyFiles, folders |-> {}, made |-> {}, log |-> <<>>]

LocalIdle == vault = EmptyVault /\ settings = DEFAULT_SETTINGS

\* the function with the given <<path, content>> pairs (paths distinct)
FilesOf(pairs) ==
    [p \in {x[1] : x \in pairs} |-> (CHOOSE x \in pairs : x[1] = p)[2]]

\* the folders a set of paths lies in, up to the root
RECURSIVE Ancestors(_)
Ancestors(p) ==
    IF parentPath(p) = <<>> THEN {} ELSE {parentPath(p)} \cup Ancestors(parentPath(p))

(***************************************************************************)
(* pruneExtraneousFiles applied to bounded repository folders.             *)
(***************************************************************************)
MaxTreeFiles == 3

PruneMeta == MetaOf(<<"o1">>, <<"r1">>, <<"main">>, <<"README", ".md">>)

\* what a Markdown file under the repository folder may hold: a file as the
\* sync writes it, a plain note, a note with a header of the user's own, and
\* headers with a part missing or written loosely
MarkdownContents ==
    { processFileContent(<<"a">>, PruneMeta,
                         OptionsOf(TRUE, TRUE, TRUE, PruneMeta), 0),
      <<"a">>,
      <<FENCE, NL, "title", COLON, SP, "x", NL, FENCE, NL, "a">>,
      \* the three keys, but the block is never closed
      <<FENCE, NL, "github_repo", COLON, SP, "o1", SLASH, "r1", NL,
        "github_path", COLON, SP, "README", ".md", NL,
        "github_url", COLON, SP, "u", NL, "a">>,
      \* github_url missing
      <<FENCE, NL, "github_repo", COLON, SP, "o1", SLASH, "r1", NL,
        "github_path", COLON, SP, "README", ".md", NL, FENCE, NL, "a">>,
      \* the keys indented, the values of a repository never synced here
      <<FENCE, NL, SP, "github_repo", SP, COLON, SP, "o9", SLASH, "r9", NL,
        "github_path", COLON, "x", ".md", NL,
        "github_url", COLON, SP, "u", NL, FENCE, NL, "a">> }

OtherContents == {<<"bytes">>}

\* the files a tree is drawn from, relative to the repository folder
TreeNames ==
    { <<"README", ".md">>, <<"docs", SLASH, "guide", ".md">>,
      <<"docs", SLASH, "api", ".mdx">>, <<"pic", ".png">>,
      <<"docs", SLASH, "shot", ".PNG">>, <<"notes", ".txt">> }

TreeEntries(repoFolder) ==
    { <<repoFolder \o <<SLASH>> \o n, c>> :
        n \in TreeNames,
        c \in MarkdownContents \cup OtherContents }

\* an entry as the vault can hold it: Markdown text in Markdown files
WellTyped(e) == isMarkdownFile(e[1]) <=> e[2] \in MarkdownContents

\* the sets of at most n entries with distinct paths
RECURSIVE TreesOf(_, _)
TreesOf(entries, n) ==
    IF n = 0 THEN {{}}
    ELSE LET smaller == TreesOf(entries, n - 1)
         IN  smaller \cup
             UNION { { t \cup {e} : e \in {x \in entries : \A y \in t : y[1] # x[1]} } :
                     t \in smaller }

\* the base folders of the settings tab: the default and a nested one
PruneBases == {<<"Projects">>, <<"Notes", SLASH, "Projects">>}

PruneIdle == prCall = <<>> /\ prBefore = <<>> /\ prPc = "idle"

\* what lies next to the repository folder: a synced file of another
\* repository
NeighbourFiles(base) ==
    { <<base \o <<SLASH, "o1", SLASH, "r2", SLASH, "README", ".md">>,
        processFileContent(<<"a">>, PruneMeta,
                           OptionsOf(TRUE, TRUE, TRUE, PruneMeta), 0)>> }

\* a repository folder with at most MaxTreeFiles files in it (one fewer under
\* the nested base folder) and an empty folder besides, a synced file of
\* another repository and an empty repository folder next to it, and a set
\* of paths the sync has just written
PruneInit ==
    /\ \E base \in PruneBases :
         LET repoFolder == repoFolderPath(base, <<"o1">>, <<"r1">>)
         IN  \E tree \in TreesOf({e \in TreeEntries(repoFolder) : WellTyped(e)},
                                 IF Len(base) = 1 THEN MaxTreeFiles
                                 ELSE MaxTreeFiles - 1) :
               /\ settings = [DEFAULT_SETTINGS EXCEPT !.baseFolder = base,
                                                      !.pruneExtraneousFiles = TRUE]
               /\ vault = [files |-> FilesOf(tree \cup NeighbourFiles(base)),
                           folders |-> {repoFolder} \cup Ancestors(repoFolder)
                                 \cup UNION {Ancestors(e[1]) : e \in tree}
                                 \cup {repoFolder \o <<SLASH, "old">>}
                                 \cup UNION {Ancestors(e[1]) : e \in NeighbourFiles(base)}
                                 \cup {base \o <<SLASH, "o1", SLASH, "r3">>},
                           made |-> {},
                           log |-> <<>>]
               /\ \E syncedFiles \in SUBSET {e[1] : e \in tree} :
                    prCall = [baseFolderPath |-> repoFolder,
                              syncedFiles |-> syncedFiles]
    /\ prBefore = vault
    /\ prPc = "init"

\* pruneExtraneousFiles(baseFolderPath, syncedFiles)
PruneRun ==
    /\ prPc = "init"
    /\ vault' = pruneExtraneousFiles(vault, prCall.baseFolderPath,
                                     prCall.syncedFiles, settings.baseFolder)
    /\ prPc' = "done"
    /\ UNCHANGED <<prCall, prBefore>>
    /\ UNCHANGED notPrune

PruneNext == PruneRun

(***************************************************************************)
(* Runs of syncAll against a small GitHub, with the changes a user can     *)
(* make between runs.                                                      *)
(***************************************************************************)
MaxRuns == 3

OWNER1 == <<"o1">>

OWNER2 == <<"o2">>

RepoA == [owner |-> OWNER1, repo |-> <<"r1">>, branch |-> <<>>]

RepoB == [owner |-> OWNER1, repo |-> <<"r2">>, branch |-> <<>>]

RepoC == [owner |-> OWNER2, repo |-> <<"r1">>, branch |-> <<>>]

\* the trees GitHub holds: r1 of o1 with a nested file and a picture, r2 of o1
\* with a README, r1 of o2 with nothing the sync takes
RemoteInit ==
    (repoIdOf(RepoA) :>
        << [path |-> <<"docs">>, type |-> "tree", content |-> <<>>],
           [path |-> <<"README", ".md">>, type |-> "blob", content |-> <<"a">>],
           [path |-> <<"docs", SLASH, "guide", ".md">>, type |-> "blob",
            content |-> <<"b">>],
           [path |-> <<"pic", ".png">>, type |-> "blob", content |-> <<"bytes">>] >>)
    @@ (repoIdOf(RepoB) :>
        << [path |-> <<"README", ".md">>, type |-> "blob", content |-> <<"a">>] >>)
    @@ (repoIdOf(RepoC) :>
        << [path |-> <<"LICENSE">>, type |-> "blob", content |-> <<"c">>] >>)

\* what GitHub lists for a namespace (GitHubRepo)
AccountRepos(namespace) ==
    IF namespace = OWNER1
    THEN << [name |-> <<"r1">>, owner |-> OWNER1, private |-> FALSE, fork |-> FALSE,
             archived |-> FALSE, default_branch |-> <<"main">>],
            [name |-> <<"r2">>, owner |-> OWNER1, private |-> TRUE, fork |-> FALSE,
             archived |-> FALSE, default_branch |-> <<"main">>] >>
    ELSE <<>>

\* the manual repository lists of the settings tab
ManualLists ==
    { <<>>, <<RepoA>>, <<RepoB>>, <<RepoC>>, <<RepoA, RepoB>>, <<RepoA, RepoC>>,
      <<RepoA, RepoA>> }

\* what a user may put under the base folder: a folder of their own two
\* levels down with a note, and a note, a picture and a copy of a synced file
\* in a repository folder
UserFiles ==
    { <<<<"Projects", SLASH, "u1", SLASH, "x", SLASH, "note", ".md">>, <<"a">>>>,
      <<<<"Projects", SLASH, "o1", SLASH, "r1", SLASH, "mine", ".md">>, <<"a">>>>,
      <<<<"Projects", SLASH, "o1", SLASH, "r1", SLASH, "photo", ".png">>, <<"bytes">>>>,
      <<<<"Projects", SLASH, "o1", SLASH, "r1", SLASH, "copy", ".md">>,
        processFileContent(<<"a">>, PruneMeta,
                           OptionsOf(TRUE, TRUE, TRUE, PruneMeta), 0)>> }

\* what is remembered of a run: the ids it resolved, the kinds of failure it
\* met, whether nothing was changed from outside since the run before began,
\* the length of removedRepoIds in its cleanup (-1 before the cleanup), and
\* whether it ran to its end; the requests its discovery sent, the baseline
\* it found in the settings, the repositories it has called syncRepository
\* for, in order, and what the last of these calls met (prior: the content
\* on disk, untouched so far in the run, of the files whose sync failed)
NoStep == [index |-> 0, listed |-> TRUE, faults |-> <<>>, ok |-> TRUE,
           prior |-> <<>>, syncedFiles |-> {}]

NoRun == [ids |-> <<>>, faults |-> {}, quiet |-> FALSE, removed |-> -1,
          complete |-> FALSE, lookups |-> <<>>, baseline |-> <<>>,
          attempted |-> <<>>, step |-> NoStep]

SyncIdle ==
    /\ remote = <<>> /\ syPc = "idle" /\ repoConfigs = <<>> /\ syIndex = 0
    /\ syCount = <<>> /\ syNotices = <<>> /\ syFaulted = FALSE /\ syChanged = FALSE
    /\ syDirty = FALSE /\ syCur = NoRun /\ syPrev = NoRun

\* the namespaces and manual lists a behaviour starts from
Resolvers ==
    { <<<<>>, <<>>>>, <<<<>>, <<RepoA>>>>, <<<<>>, <<RepoA, RepoB>>>>,
      <<<<>>, <<RepoA, RepoC>>>>, <<<<>>, <<RepoA, RepoA>>>>,
      <<<<OWNER1>>, <<>>>>, <<<<OWNER1>>, <<RepoB>>>> }

\* addFrontmatter, pruneExtraneousFiles and syncMediaFiles as a behaviour
\* starts with them; the first is the default
Toggles ==
    { <<TRUE, FALSE, FALSE>>, <<TRUE, TRUE, TRUE>>, <<FALSE, TRUE, FALSE>>,
      <<FALSE, FALSE, TRUE>> }

\* the settings a behaviour starts from: the defaults (no token), or a token
\* with a resolver and toggles
SyncSettings ==
    {DEFAULT_SETTINGS} \cup
    { [DEFAULT_SETTINGS EXCEPT
          !.githubToken = <<"tok">>,
          !.namespaces = r[1],
          !.repos = r[2],
          !.addFrontmatter = t[1],
          !.pruneExtraneousFiles = t[2],
          !.syncMediaFiles = t[3]] : r \in Resolvers, t \in Toggles }

SyncInit ==
    /\ settings \in SyncSettings
    /\ vault = EmptyVault
    /\ remote = RemoteInit
    /\ syPc = "idle" /\ repoConfigs = <<>> /\ syIndex = 0
    /\ syCount = [synced |-> 0, errors |-> 0]
    /\ syNotices = <<>> /\ syFaulted = FALSE /\ syChanged = FALSE
    /\ syDirty = FALSE /\ syCur = NoRun /\ syPrev = NoRun

currentRepoIds == [i \in 1..Len(repoConfigs) |-> repoIdOf(repoConfigs[i])]

\* syncAll without a client (no token): a Notice, nothing else
RunNoToken_cleansUp ==
    /\ syPc = "idle" /\ now < MaxRuns
    /\ settings.githubToken = <<>>
    /\ now' = now + 1
    /\ syNotices' = <<"GitHub token not configured">>
    /\ syPrev' = syCur
    /\ syCur' = [NoRun EXCEPT !.quiet = ~syDirty,
                              !.baseline = settings.lastSyncedRepos]
    /\ syDirty' = FALSE
    /\ vault' = cleanupRemovedRepositories([vault EXCEPT !.log = <<>>], settings,
                                           <<>>, NoPath)
    /\ UNCHANGED <<settings, remote, syPc, repoConfigs, syIndex, syCount,
                   syFaulted, syChanged>>
    /\ UNCHANGED notSync

RunNoToken ==
    /\ syPc = "idle" /\ now < MaxRuns
    /\ settings.githubToken = <<>>
    /\ now' = now + 1
    /\ syNotices' = <<"GitHub token not configured">>
    /\ syPrev' = syCur
    /\ syCur' = [NoRun EXCEPT !.quiet = ~syDirty,
                              !.baseline = settings.lastSyncedRepos]
    /\ syDirty' = FALSE
    /\ vault' = [vault EXCEPT !.log = <<>>]
    /\ UNCHANGED <<settings, remote, syPc, repoConfigs, syIndex, syCount,
                   syFaulted, syChanged>>
    /\ UNCHANGED notSync

\* syncAll up to the call of cleanupRemovedRepositories: the repositories are
\* resolved; with none the run ends with a Notice.  discovered tells whether
\* GitHub answers the namespace listings.
RunStart ==
    /\ syPc = "idle" /\ now < MaxRuns
    /\ settings.githubToken # <<>>
    /\ \E discovered \in BOOLEAN :
         LET answers == [i \in 1..Len(settings.namespaces) |->
                            [ok |-> discovered,
                             repos |-> AccountRepos(settings.namespaces[i])]]
             configs == getAllRepoConfigs(settings, answers)
             failed == ~discovered /\ Len(settings.namespaces) > 0
         IN  /\ ~discovered => Len(settings.namespaces) > 0 /\ ~syFaulted
             /\ syFaulted' = (syFaulted \/ failed)
             /\ repoConfigs' = configs
             /\ syCur' = [ids |-> [i \in 1..Len(configs) |-> repoIdOf(configs[i])],
                          faults |-> IF failed THEN {"discover"} ELSE {},
                          quiet |-> ~syDirty,
                          removed |-> -1,
                          complete |-> FALSE,
                          lookups |-> discoveryRequests(settings.namespaces,
                                        [i \in 1..Len(settings.namespaces) |->
                                           [user |-> answers[i], org |-> Failed]]),
                          baseline |-> settings.lastSyncedRepos,
                          attempted |-> <<>>,
                          step |-> NoStep]
             /\ IF Len(configs) = 0
                THEN /\ syNotices' = <<"No repositories configured for sync">>
                     /\ syPc' = "idle"
                ELSE /\ syNotices' = <<>>
                     /\ syPc' = "cleanup"
    /\ now' = now + 1
    /\ vault' = [vault EXCEPT !.log = <<>>]
    /\ syPrev' = syCur
    /\ syDirty' = FALSE
    /\ syIndex' = 1
    /\ syCount' = [synced |-> 0, errors |-> 0]
    /\ UNCHANGED <<settings, remote, syChanged>>
    /\ UNCHANGED notSync

\* the try/catch around syncRepository in the loop of syncAll: the call is
\* counted as synced or as failed, and the loop goes on to the next
\* repository either way
afterRepository_stopsAtFailure(count, index, ok, n) ==
    IF ok THEN [count |-> [count EXCEPT !.synced = @ + 1], index |-> index + 1]
    ELSE [count |-> [count EXCEPT !.errors = @ + 1], index |-> n + 1]

afterRepository(count, index, ok, n) ==
    IF ok THEN [count |-> [count EXCEPT !.synced = @ + 1], index |-> index + 1]
    ELSE [count |-> [count EXCEPT !.errors = @ + 1], index |-> index + 1]

\* the paths cleanupRemovedRepositories may try to delete
cleanupTargets ==
    LET removed == removedRepoIdsOf(vault, settings, currentRepoIds)
        folders == { settings.baseFolder \o <<SLASH>> \o removed[i] :
                       i \in 1..Len(removed) }
        owners == { settings.baseFolder \o <<SLASH>> \o split(removed[i], SLASH)[1] :
                      i \in 1..Len(removed) }
    IN  { p \in DOMAIN vault.files \cup vault.folders :
            \/ \E f \in folders : p = f \/ startsWith(p, f \o <<SLASH>>)
            \/ p \in owners }

\* cleanupRemovedRepositories(currentRepoIds); fail is the path, if any, at
\* which the vault rejects a delete
RunCleanup_afterOverwrite ==
    /\ syPc = "cleanup"
    /\ settings' = [settings EXCEPT !.lastSyncedRepos = currentRepoIds]
    /\ vault' = cleanupRemovedRepositories(vault, settings', currentRepoIds, NoPath)
    /\ syCur' = [syCur EXCEPT !.removed = Len(removedRepoIdsOf(vault, settings',
                                                                currentRepoIds))]
    /\ syPc' = "repos"
    /\ UNCHANGED <<now, remote, repoConfigs, syIndex, syCount, syNotices,
                   syFaulted, syChanged, syDirty, syPrev>>
    /\ UNCHANGED notSync

RunCleanup ==
    /\ syPc = "cleanup"
    /\ \E fail \in {NoPath} \cup cleanupTargets :
         /\ fail # NoPath => ~syFaulted
         /\ syFaulted' = (syFaulted \/ fail # NoPath)
         /\ syCur' = [syCur EXCEPT
                        !.faults = IF fail # NoPath THEN @ \cup {"delete"} ELSE @,
                        !.removed = Len(removedRepoIdsOf(vault, settings,
                                                         currentRepoIds))]
         /\ vault' = cleanupRemovedRepositories(vault, settings, currentRepoIds, fail)
    /\ syNotices' =
         IF Len(removedRepoIdsOf(vault, settings, currentRepoIds)) > 0
         THEN Append(syNotices,
                <<"Cleaned up", Len(removedRepoIdsOf(vault, settings, currentRepoIds)),
                  "removed repositories">>)
         ELSE syNotices
    /\ syPc' = "repos"
    /\ UNCHANGED <<now, settings, remote, repoConfigs, syIndex, syCount, syChanged,
                   syDirty, syPrev>>
    /\ UNCHANGED notSync

\* the faults one repository may meet: none, or one file whose fetch or
\* write fails
FaultPlans(n) ==
    {[k \in 1..n |-> "none"]} \cup
    { [k \in 1..n |-> IF k = j THEN kind ELSE "none"] :
        j \in 1..n, kind \in {"noclient", "fetch", "write"} }

\* what syncAll and the record of the run keep of the call of syncRepository
\* for the repository at syIndex, res being what the call returned
syncRepositoryDone(listed, faults, prior, res) ==
    /\ syCur' = [syCur EXCEPT
                   !.faults =
                     @ \cup (IF ~listed THEN {"list"} ELSE {})
                       \cup ({faults[k] : k \in DOMAIN faults} \ {"none"}),
                   !.attempted = Append(@, repoIdOf(repoConfigs[syIndex])),
                   !.step = [index |-> syIndex, listed |-> listed,
                             faults |-> faults, ok |-> res.ok, prior |-> prior,
                             syncedFiles |-> res.syncedFiles]]
    /\ vault' = res.v
    /\ syCount' = afterRepository(syCount, syIndex, res.ok, Len(repoConfigs)).count
    /\ syIndex' = afterRepository(syCount, syIndex, res.ok, Len(repoConfigs)).index

\* one turn of the loop of syncAll: syncRepository(repoConfig) in its
\* try/catch
RunSyncRepository ==
    /\ syPc = "repos" /\ syIndex <= Len(repoConfigs)
    /\ LET config == repoConfigs[syIndex]
           tree == remote[repoIdOf(config)]
           n == Len(getAllSyncableFiles(tree, settings.syncMediaFiles))
       IN  \E listed \in BOOLEAN, faults \in FaultPlans(n) :
             LET faulty == ~listed \/ \E k \in 1..n : faults[k] # "none"
                 localFilePath(k) ==
                     getLocalFilePath(
                         repoFolderPath(settings.baseFolder, config.owner, config.repo),
                         getAllSyncableFiles(tree, settings.syncMediaFiles)[k].path)
                 held == { k \in 1..n :
                             /\ faults[k] # "none"
                             /\ isFile(vault, localFilePath(k))
                             /\ \A i \in 1..Len(vault.log) :
                                  vault.log[i].path # localFilePath(k) }
             IN  /\ ~listed => \A k \in 1..n : faults[k] = "none"
                 /\ faulty => ~syFaulted
                 /\ syFaulted' = (syFaulted \/ faulty)
                 /\ syncRepositoryDone(
                        listed, faults,
                        [k \in held |-> vault.files[localFilePath(k)]],
                        syncRepository(vault, settings, config, listed, tree, now,
                                       faults))
    /\ UNCHANGED <<now, settings, remote, syPc, repoConfigs, syNotices, syChanged,
                   syDirty, syPrev>>
    /\ UNCHANGED notSync

\* the end of syncAll: the baseline is stored and the outcome shown
RunFinish ==
    /\ syPc = "repos" /\ syIndex > Len(repoConfigs)
    /\ settings' = [settings EXCEPT !.lastSyncedRepos = currentRepoIds]
    /\ syNotices' = Append(syNotices,
                       IF syCount.errors = 0
                       THEN <<"Synced", syCount.synced, "repositories">>
                       ELSE <<"Synced", syCount.synced, "repositories",
                              syCount.errors, "errors">>)
    /\ syCur' = [syCur EXCEPT !.complete = TRUE]
    /\ syPc' = "idle"
    /\ UNCHANGED <<now, vault, remote, repoConfigs, syIndex, syCount, syFaulted,
                   syChanged, syDirty, syPrev>>
    /\ UNCHANGED notSync

\* between runs the user edits the repository list in the settings tab
EnvSetRepos ==
    /\ syPc = "idle" /\ ~syChanged
    /\ \E repos \in ManualLists \ {settings.repos} :
         settings' = [settings EXCEPT !.repos = repos]
    /\ syChanged' = TRUE
    /\ syDirty' = TRUE
    /\ UNCHANGED <<now, vault, remote, syPc, repoConfigs, syIndex, syCount,
                   syNotices, syFaulted, syCur, syPrev>>
    /\ UNCHANGED notSync

\* between runs the user puts a file of their own under the base folder, in
\* folders of their own where none are there yet
EnvUserAdds ==
    /\ syPc = "idle" /\ ~syChanged
    /\ \E e \in UserFiles :
         /\ ~exists(vault, e[1])
         /\ vault' = [vault EXCEPT
                        !.files = [p \in DOMAIN vault.files \cup {e[1]} |->
                                     IF p = e[1] THEN e[2] ELSE vault.files[p]],
                        !.folders = @ \cup Ancestors(e[1])]
    /\ syChanged' = TRUE
    /\ syDirty' = TRUE
    /\ UNCHANGED <<now, settings, remote, syPc, repoConfigs, syIndex, syCount,
                   syNotices, syFaulted, syCur, syPrev>>
    /\ UNCHANGED notSync

\* between runs a file is removed from a repository on GitHub
EnvRemoteRemoves ==
    /\ syPc = "idle" /\ ~syChanged
    /\ \E id \in DOMAIN remote :
         \E k \in 1..Len(remote[id]) :
           /\ remote[id][k].type = "blob"
           /\ remote' = [remote EXCEPT ![id] =
                           SubSeq(@, 1, k - 1) \o SubSeq(@, k + 1, Len(@))]
    /\ syChanged' = TRUE
    /\ syDirty' = TRUE
    /\ UNCHANGED <<now, vault, settings, syPc, repoConfigs, syIndex, syCount,
                   syNotices, syFaulted, syCur, syPrev>>
    /\ UNCHANGED notSync

SyncNext ==
    \/ RunNoToken
    \/ RunStart
    \/ RunCleanup
    \/ RunSyncRepository
    \/ RunFinish
    \/ EnvSetRepos
    \/ EnvUserAdds
    \/ EnvRemoteRemoves

(***************************************************************************)
(* getAllRepoConfigs applied to bounded settings and GitHub answers.       *)
(***************************************************************************)
MaxNamespaces == 2

MaxManualRepos == 2

\* manual entries: a repository with no branch given, the same with a
\* branch, and a second repository
ManualPool ==
    { [owner |-> OWNER1, repo |-> <<"r1">>, branch |-> <<>>],
      [owner |-> OWNER1, repo |-> <<"r1">>, branch |-> <<"dev">>],
      [owner |-> OWNER2, repo |-> <<"r2">>, branch |-> <<"main">>] }

\* what GitHub lists for a namespace: a plain repository and a fork
ListingOf(namespace) ==
    << [name |-> <<"r1">>, owner |-> namespace, private |-> FALSE, fork |-> FALSE,
        archived |-> FALSE, default_branch |-> <<"trunk">>],
       [name |-> <<"r2">>, owner |-> namespace, private |-> FALSE, fork |-> TRUE,
        archived |-> FALSE, default_branch |-> <<"main">>] >>

\* the answers to the two lookups of a namespace: both fail, the user listing
\* arrives, the user listing arrives empty, only the organisation listing
\* arrives, both arrive
LookupsOf(namespace) ==
    { [user |-> Failed, org |-> Failed],
      [user |-> [ok |-> TRUE, repos |-> ListingOf(namespace)], org |-> Failed],
      [user |-> [ok |-> TRUE, repos |-> <<>>], org |-> Failed],
      [user |-> Failed, org |-> [ok |-> TRUE, repos |-> ListingOf(namespace)]],
      \* a user without repositories where an organisation listing would arrive
      [user |-> [ok |-> TRUE, repos |-> <<>>],
       org |-> [ok |-> TRUE, repos |-> ListingOf(namespace)]] }

ResolveIdle == rsLookups = <<>> /\ rsOut = <<>> /\ rsPc = "idle"

ResolveInit ==
    /\ \E namespaces \in ListsOf({OWNER1, OWNER2}, MaxNamespaces),
          repos \in ListsOf(ManualPool, MaxManualRepos),
          includeForks \in BOOLEAN :
         /\ settings = [DEFAULT_SETTINGS EXCEPT
                          !.githubToken = <<"tok">>,
                          !.namespaces = namespaces,
                          !.repos = repos,
                          !.autoDefaults.includeForks = includeForks]
         /\ rsLookups \in [1..Len(namespaces) -> UNION {LookupsOf(n) : n \in {OWNER1, OWNER2}}]
         /\ \A i \in 1..Len(namespaces) : rsLookups[i] \in LookupsOf(namespaces[i])
    /\ vault = EmptyVault
    /\ rsOut = <<>>
    /\ rsPc = "init"

\* what each namespace yields, in the order of settings.namespaces
rsAnswers ==
    [i \in 1..Len(settings.namespaces) |->
        lookupNamespace(rsLookups[i].user, rsLookups[i].org)]

\* getAllRepoConfigs()
Resolve ==
    /\ rsPc = "init"
    /\ rsOut' = [configs |-> getAllRepoConfigs(settings, rsAnswers),
                 autoRepos |-> IF Len(settings.namespaces) > 0
                               THEN discoverRepositories(settings.namespaces, rsAnswers,
                                                         settings.autoDefaults)
                               ELSE <<>>,
                 requests |-> IF Len(settings.namespaces) > 0
                              THEN discoveryRequests(settings.namespaces, rsLookups)
                              ELSE <<>>]
    /\ rsPc' = "done"
    /\ UNCHANGED rsLookups
    /\ UNCHANGED notResolve

ResolveNext == Resolve

(***************************************************************************)
(* The two triggers of syncAll (main.ts onload, 30-35, and setupAutoSync,  *)
(* 88-96): the sync-now command and the timer both call syncAll, and       *)
(* nothing records that a run is in progress.  Each run goes through the   *)
(* awaits of syncAll on the one vault and the one settings object; a step  *)
(* is what a run does between two of them.                                 *)
(***************************************************************************)
Triggers == {"timer", "command"}

\* a syncAll that is not running; ops counts the vault operations of the run
NoOverlapRun == [pc |-> "idle", repoConfigs |-> <<>>, index |-> 0,
                 count |-> [synced |-> 0, errors |-> 0], ops |-> 0]

OverlapIdle == syncInterval = FALSE /\ ovRuns = <<>>

OverlapSettings ==
    { [DEFAULT_SETTINGS EXCEPT
          !.githubToken = <<"tok">>,
          !.namespaces = r[1],
          !.repos = r[2],
          !.pruneExtraneousFiles = prune] :
        r \in { <<<<>>, <<RepoA>>>>, <<<<>>, <<RepoA, RepoB>>>>, <<<<OWNER1>>, <<>>>> },
        prune \in BOOLEAN }

\* after onload: the timer is set when autoSync is on with a positive interval
OverlapInit ==
    /\ settings \in OverlapSettings
    /\ vault = EmptyVault
    /\ syncInterval \in BOOLEAN
    /\ ovRuns = [r \in Triggers |-> NoOverlapRun]

\* syncAll up to the call of cleanupRemovedRepositories, started by r
syncAllStart_whenIdle(r) ==
    /\ \A q \in Triggers : ovRuns[q].pc = "idle"
    /\ now < MaxRuns
    /\ LET answers == [i \in 1..Len(settings.namespaces) |->
                          [ok |-> TRUE, repos |-> AccountRepos(settings.namespaces[i])]]
           configs == getAllRepoConfigs(settings, answers)
       IN  ovRuns' = [ovRuns EXCEPT ![r] =
                        IF settings.githubToken = <<>> \/ Len(configs) = 0
                        THEN NoOverlapRun
                        ELSE [NoOverlapRun EXCEPT !.pc = "cleanup",
                                                  !.repoConfigs = configs,
                                                  !.index = 1]]
    /\ now' = now + 1
    /\ UNCHANGED <<vault, settings, syncInterval>>
    /\ UNCHANGED notOverlap

syncAllStart(r) ==
    /\ ovRuns[r].pc = "idle"
    /\ now < MaxRuns
    /\ LET answers == [i \in 1..Len(settings.namespaces) |->
                          [ok |-> TRUE, repos |-> AccountRepos(settings.namespaces[i])]]
           configs == getAllRepoConfigs(settings, answers)
       IN  ovRuns' = [ovRuns EXCEPT ![r] =
                        IF settings.githubToken = <<>> \/ Len(configs) = 0
                        THEN NoOverlapRun
                        ELSE [NoOverlapRun EXCEPT !.pc = "cleanup",
                                                  !.repoConfigs = configs,
                                                  !.index = 1]]
    /\ now' = now + 1
    /\ UNCHANGED <<vault, settings, syncInterval>>
    /\ UNCHANGED notOverlap

\* the callback of setInterval
TimerFires == syncInterval /\ syncAllStart("timer")

\* the callback of the sync-now command
SyncNowCommand == syncAllStart("command")

overlapRepoIds(r) ==
    [i \in 1..Len(ovRuns[r].repoConfigs) |-> repoIdOf(ovRuns[r].repoConfigs[i])]

\* what the run of r keeps of its cleanup, v being the vault it leaves
overlapCleanupDone(r, v) ==
    /\ vault' = v
    /\ ovRuns' = [ovRuns EXCEPT ![r].pc = "repos",
                                ![r].ops = @ + Len(v.log) - Len(vault.log)]

\* the cleanup of a run
OverlapCleanup ==
    \E r \in Triggers :
      /\ ovRuns[r].pc = "cleanup"
      /\ overlapCleanupDone(r, cleanupRemovedRepositories(vault, settings,
                                                          overlapRepoIds(r), NoPath))
      /\ UNCHANGED <<now, settings, syncInterval>>
      /\ UNCHANGED notOverlap

\* what the run of r keeps of a call of syncRepository that returned res
overlapRepositoryDone(r, res) ==
    /\ vault' = res.v
    /\ ovRuns' = [ovRuns EXCEPT
                    ![r].count = afterRepository(@, ovRuns[r].index, res.ok,
                                                 Len(ovRuns[r].repoConfigs)).count,
                    ![r].index = afterRepository(ovRuns[r].count, @, res.ok,
                                                 Len(ovRuns[r].repoConfigs)).index,
                    ![r].ops = @ + Len(res.v.log) - Len(vault.log)]

\* one pass of the loop of a run
OverlapSyncRepository ==
    \E r \in Triggers :
      /\ ovRuns[r].pc = "repos" /\ ovRuns[r].index <= Len(ovRuns[r].repoConfigs)
      /\ LET config == ovRuns[r].repoConfigs[ovRuns[r].index]
             tree == RemoteInit[repoIdOf(config)]
             n == Len(getAllSyncableFiles(tree, settings.syncMediaFiles))
         IN  overlapRepositoryDone(r, syncRepository(vault, settings, config, TRUE,
                                                     tree, now,
                                                     [k \in 1..n |-> "none"]))
      /\ UNCHANGED <<now, settings, syncInterval>>
      /\ UNCHANGED notOverlap

\* the end of a run: the baseline is stored
OverlapFinish ==
    \E r \in Triggers :
      /\ ovRuns[r].pc = "repos" /\ ovRuns[r].index > Len(ovRuns[r].repoConfigs)
      /\ settings' = [settings EXCEPT !.lastSyncedRepos = overlapRepoIds(r)]
      /\ ovRuns' = [ovRuns EXCEPT ![r] = NoOverlapRun]
      /\ UNCHANGED <<now, vault, syncInterval>>
      /\ UNCHANGED notOverlap

OverlapNext ==
    \/ TimerFires
    \/ SyncNowCommand
    \/ OverlapCleanup
    \/ OverlapSyncRepository
    \/ OverlapFinish

(***************************************************************************)
(* One listing of a repository (github.ts getAllSyncableFiles, 161-184).   *)
(* The entries carry a label saying what they are, set down by hand: the   *)
(* listing does not read it.                                               *)
(***************************************************************************)
MaxListing == 2

ListingPool ==
    { [path |-> <<"README", ".md">>, type |-> "blob", is |-> "markdown"],
      [path |-> <<"docs", SLASH, "api", ".mdx">>, type |-> "blob", is |-> "markdown"],
      [path |-> <<".md">>, type |-> "blob", is |-> "markdown"],
      [path |-> <<"docs">>, type |-> "tree", is |-> "directory"],
      [path |-> <<"notes", ".md">>, type |-> "tree", is |-> "directory"],
      [path |-> <<"img", ".png">>, type |-> "tree", is |-> "directory"],
      [path |-> <<"pic", ".png">>, type |-> "blob", is |-> "media"],
      [path |-> <<"docs", SLASH, "shot", ".PNG">>, type |-> "blob", is |-> "media"],
      [path |-> <<"docs", SLASH, "paper", ".pdf">>, type |-> "blob", is |-> "media"],
      [path |-> <<"notes", ".txt">>, type |-> "blob", is |-> "other"],
      [path |-> <<"LICENSE">>, type |-> "blob", is |-> "other"],
      [path |-> <<"img", ".png", SLASH, "readme">>, type |-> "blob", is |-> "other"],
      [path |-> <<"README", ".md", ".txt">>, type |-> "blob", is |-> "other"] }

ListingIdle == lsTree = <<>> /\ lsMedia = FALSE /\ lsOut = <<>> /\ lsPc = "idle"

ListingInit ==
    /\ lsTree \in { l \in ListsOf(ListingPool, MaxListing) :
                       \A i, j \in 1..Len(l) : i # j => l[i].path # l[j].path }
    /\ lsMedia \in BOOLEAN
    /\ lsOut = <<>>
    /\ lsPc = "init"

ListingRun ==
    /\ lsPc = "init"
    /\ lsOut' = getAllSyncableFiles(lsTree, lsMedia)
    /\ lsPc' = "done"
    /\ UNCHANGED <<lsTree, lsMedia>>
    /\ UNCHANGED notListing

ListingNext == ListingRun

(***************************************************************************)
(* The timer of the automatic sync (main.ts onload, 19-44, onunload,       *)
(* 46-51, saveSettings, 69-86, setupAutoSync, 88-96).                      *)
(***************************************************************************)
MaxTimers == 4

\* a plugin object as constructed: no handle, and a window without timers
NoPlugin == [syncInterval |-> 0, timers |-> {}, issued |-> 0]

\* window.clearInterval
clearInterval(p, handle) == [p EXCEPT !.timers = @ \ {handle}]

\* window.setInterval: a timer under a fresh handle, which the plugin keeps
setInterval(p) ==
    [p EXCEPT !.timers = @ \cup {p.issued + 1},
              !.issued = @ + 1,
              !.syncInterval = p.issued + 1]

\* setupAutoSync setting the new timer without clearing the one it holds
\* (sensitivity variant for C36)
setupAutoSync_noClear(p) == setInterval(p)

setupAutoSync(p) ==
    setInterval(IF p.syncInterval # 0 THEN clearInterval(p, p.syncInterval) ELSE p)

\* 'this.settings.autoSync && this.settings.syncIntervalHours > 0'
autoSyncEnabled(s) == s.autoSync /\ s.syncIntervalHours > 0

\* what the settings can hold of the two fields
TimerSettings == [autoSync : BOOLEAN, syncIntervalHours : {0, 1, 2, 3}]

TimerIdle == tmSettings = <<>> /\ tmPlugin = <<>> /\ tmLast = "idle"

\* the plugin object before onload
TimerInit ==
    /\ tmSettings \in TimerSettings
    /\ tmPlugin = NoPlugin
    /\ tmLast = "new"

\* onload: the settings are loaded and the timer is set up when enabled
Onload ==
    /\ tmPlugin.issued < MaxTimers
    /\ \E loaded \in TimerSettings :
         /\ tmSettings' = loaded
         /\ tmPlugin' = IF autoSyncEnabled(loaded) THEN setupAutoSync(tmPlugin)
                        ELSE tmPlugin
    /\ tmLast' = "onload"
    /\ UNCHANGED notTimer

\* saveSettings, after a change made in the settings tab (the toggle, or an
\* interval above zero) or, the settings as they are, at the end of a run
SaveSettings ==
    /\ tmPlugin.issued < MaxTimers
    /\ \E s \in TimerSettings :
         /\ \/ s = tmSettings
            \/ s = [tmSettings EXCEPT !.autoSync = ~@]
            \/ s.autoSync = tmSettings.autoSync /\ s.syncIntervalHours > 0
         /\ tmSettings' = s
         /\ tmPlugin' =
              IF autoSyncEnabled(s) THEN setupAutoSync(tmPlugin)
              ELSE IF tmPlugin.syncInterval # 0
                   THEN [clearInterval(tmPlugin, tmPlugin.syncInterval)
                           EXCEPT !.syncInterval = 0]
                   ELSE tmPlugin
    /\ tmLast' = "saveSettings"
    /\ UNCHANGED notTimer

\* onunload: the timer is cleared, the handle stays in the field
Onunload ==
    /\ tmPlugin' = IF tmPlugin.syncInterval # 0
                   THEN clearInterval(tmPlugin, tmPlugin.syncInterval)
                   ELSE tmPlugin
    /\ tmLast' = "onunload"
    /\ UNCHANGED tmSettings
    /\ UNCHANGED notTimer

TimerNext == Onload \/ SaveSettings \/ Onunload

(***************************************************************************)
(* Specifications.                                                         *)
(***************************************************************************)
InitCodec ==
    /\ CodecInit /\ BacklinkIdle /\ PagingIdle /\ FilterIdle /\ LocalIdle /\ PruneIdle /\ SyncIdle /\ ResolveIdle /\ OverlapIdle /\ ListingIdle
    /\ TimerIdle

SpecCodec == InitCodec /\ [][CodecNext]_vars

InitBacklink ==
    /\ now = 0 /\ CodecIdle /\ BacklinkInit /\ PagingIdle /\ FilterIdle
    /\ LocalIdle /\ PruneIdle /\ SyncIdle /\ ResolveIdle /\ OverlapIdle /\ ListingIdle
    /\ TimerIdle

SpecBacklink == InitBacklink /\ [][BacklinkNext]_vars

InitPaging ==
    /\ now = 0 /\ CodecIdle /\ BacklinkIdle /\ PagingInit /\ FilterIdle
    /\ LocalIdle /\ PruneIdle /\ SyncIdle /\ ResolveIdle /\ OverlapIdle /\ ListingIdle
    /\ TimerIdle

SpecPaging == InitPaging /\ [][PagingNext]_vars

InitFilter ==
    /\ now = 0 /\ CodecIdle /\ BacklinkIdle /\ PagingIdle /\ FilterInit
    /\ LocalIdle /\ PruneIdle /\ SyncIdle /\ ResolveIdle /\ OverlapIdle /\ ListingIdle
    /\ TimerIdle

SpecFilter == InitFilter /\ [][FilterNext]_vars

InitPrune ==
    /\ now = 0 /\ CodecIdle /\ BacklinkIdle /\ PagingIdle /\ FilterIdle
    /\ PruneInit /\ SyncIdle /\ ResolveIdle /\ OverlapIdle /\ ListingIdle
    /\ TimerIdle

SpecPrune == InitPrune /\ [][PruneNext]_vars

InitSync ==
    /\ now = 0 /\ CodecIdle /\ BacklinkIdle /\ PagingIdle /\ FilterIdle /\ PruneIdle
    /\ SyncInit /\ ResolveIdle /\ OverlapIdle /\ ListingIdle
    /\ TimerIdle

SpecSync == InitSync /\ [][SyncNext]_vars

InitResolve ==
    /\ now = 0 /\ CodecIdle /\ BacklinkIdle /\ PagingIdle /\ FilterIdle /\ PruneIdle
    /\ SyncIdle /\ ResolveInit /\ OverlapIdle /\ ListingIdle
    /\ TimerIdle

SpecResolve == InitResolve /\ [][ResolveNext]_vars

InitOverlap ==
    /\ now = 0 /\ CodecIdle /\ BacklinkIdle /\ PagingIdle /\ FilterIdle /\ PruneIdle
    /\ SyncIdle /\ ResolveIdle /\ OverlapInit /\ ListingIdle
    /\ TimerIdle

SpecOverlap == InitOverlap /\ [][OverlapNext]_vars

InitListing ==
    /\ now = 0 /\ CodecIdle /\ BacklinkIdle /\ PagingIdle /\ FilterIdle /\ LocalIdle
    /\ PruneIdle /\ SyncIdle /\ ResolveIdle /\ OverlapIdle /\ ListingInit
    /\ TimerIdle

SpecListing == InitListing /\ [][ListingNext]_vars

InitTimer ==
    /\ now = 0 /\ CodecIdle /\ BacklinkIdle /\ PagingIdle /\ FilterIdle /\ LocalIdle
    /\ PruneIdle /\ SyncIdle /\ ResolveIdle /\ OverlapIdle /\ ListingIdle
    /\ TimerInit

SpecTimer == InitTimer /\ [][TimerNext]_vars

(***************************************************************************)
(* Claims about the codec.                                                 *)
(***************************************************************************)
AllBlocks == options.addFrontmatter /\ options.addReadonlyBanner /\ options.addBacklinks

\* a leading header block: the document begins with the fence line and a
\* later line is the closing fence
HasHeaderBlock(s) ==
    startsWith(s, <<FENCE, NL>>) /\ includes(s, <<NL, FENCE, NL>>)

\* what follows the header block
AfterHeaderBlock(s) == substringFrom(s, indexOf(s, <<NL, FENCE, NL>>) + 3)

\* some line of s opens and closes like a backlink
HasBacklinkLine(s) ==
    \E i \in 1..Len(split(s, NL)) :
        LET line == split(s, NL)[i]
        IN  Len(line) >= 2 /\ line[1] = BLOPEN /\ line[Len(line)] = BLCLOSE

\* C5: processFileContent applied to its own output returns that output
\* unchanged, for every document, metadata and toggles, also when the clock
\* has advanced between the two applications: no header, banner or backlink
\* is added a second time (so the two agree, the synced_at value included).
C5_Idempotent ==
    hist = <<"process", "process">> => doc = prev

C5_Witness ==
    /\ hist = <<"process", "process">>
    /\ AllBlocks
    /\ body # <<>>
    /\ doc # body
    /\ now = 2

\* C6 as stated: stripping the fully processed form of a document that holds
\* no header block, no banner text and no backlink-shaped line gives the
\* document back.
C6_RoundTripExact ==
    (/\ hist = <<"process", "strip">>
     /\ AllBlocks
     /\ ~HasHeaderBlock(body)
     /\ ~includes(body, <<WARN>>)
     /\ ~HasBacklinkLine(body))
        => doc = body

\* C6 amended: stripping the fully processed form of such a document gives the
\* document without its leading whitespace (the document itself when it does
\* not begin with whitespace).
C6_RoundTripTrimmed ==
    (/\ hist = <<"process", "strip">>
     /\ AllBlocks
     /\ ~HasHeaderBlock(body)
     /\ ~includes(body, <<WARN>>)
     /\ ~HasBacklinkLine(body))
        => doc = trimStart(body)

C6_Witness ==
    /\ hist = <<"process", "strip">>
    /\ AllBlocks
    /\ ~HasHeaderBlock(body)
    /\ ~includes(body, <<WARN>>)
    /\ ~HasBacklinkLine(body)
    /\ Len(body) >= 3
    /\ body[1] = SP
    /\ doc = trimStart(body)
    /\ doc # body
    /\ prev # body

\* C7: addReadonlyBanner leaves unchanged every document that holds the banner
\* title after its header block, or anywhere when it has no header block.
C7_NoDuplicateBanner ==
    (/\ hist = <<"banner">>
     /\ IF HasHeaderBlock(body)
        THEN includes(AfterHeaderBlock(body), <<WARN>>)
        ELSE includes(body, <<WARN>>))
        => doc = body

C7_Witness ==
    /\ hist = <<"banner">>
    /\ HasHeaderBlock(body)
    /\ includes(AfterHeaderBlock(body), <<WARN>>)
    /\ ~startsWith(AfterHeaderBlock(body), <<WARN>>)
    /\ doc = body

(***************************************************************************)
(* Claims about the backlink target.                                       *)
(***************************************************************************)
\* baseFolderPath/d1/.../dk
RECURSIVE UnderRepo(_, _)
UnderRepo(root, dirs) ==
    IF dirs = <<>> THEN root
    ELSE UnderRepo(root \o <<SLASH, Head(dirs)>>, Tail(dirs))

\* C8: the backlink target of a file at the repository root is the base
\* folder; of a file in one directory, base/owner/repo/README; of a file in
\* directories d1/.../dn with n >= 2, base/owner/repo/d1/.../d(n-1)/README.
C8_BacklinkTarget ==
    blPc = "done" =>
        LET n == Len(blIn.dirs)
            root == blIn.baseFolder \o <<SLASH>> \o blIn.owner \o <<SLASH>> \o blIn.repo
        IN  blTarget =
                IF n = 0 THEN blIn.baseFolder
                ELSE UnderRepo(root, SubSeq(blIn.dirs, 1, n - 1)) \o <<SLASH, "README">>

\* docs/guides/guide.md under Projects/o1/r1 links to Projects/o1/r1/docs/README
C8_Witness ==
    /\ blPc = "done"
    /\ blIn.baseFolder = <<"Projects">>
    /\ blIn.owner = <<"o1">> /\ blIn.repo = <<"r1">>
    /\ blIn.dirs = <<"docs", "guides">>
    /\ blTarget = <<"Projects", SLASH, "o1", SLASH, "r1", SLASH, "docs", SLASH, "README">>

(***************************************************************************)
(* Claims about pagination and the filters.                                *)
(***************************************************************************)
RECURSIVE Flatten(_)
Flatten(pages) ==
    IF pages = <<>> THEN <<>> ELSE Head(pages) \o Flatten(Tail(pages))

\* C9: getUserRepos/getOrgRepos request pages 1, 2, ... in order with
\* per_page = 100; no request follows a page that is empty or shorter than
\* 100; a call that returns has received a last page shorter than 100 (or
\* empty) and returns the concatenation of all pages received, having issued
\* one request per page received (two for a full page and an empty one, one
\* for a short first page).
C9_Pagination ==
    /\ \A i \in 1..Len(pgRequests) :
            pgRequests[i] = [kind |-> pgCall.kind, name |-> pgCall.name,
                             per_page |-> 100, page |-> i]
    /\ \A i \in 1..(Len(pgPages) - 1) : Len(pgPages[i]) = 100
    /\ pgPc = "loop" =>
            /\ \A i \in 1..Len(pgPages) : Len(pgPages[i]) = 100
            /\ Len(pgRequests) = Len(pgPages)
    /\ pgPc = "returned" =>
            /\ Len(pgPages) >= 1
            /\ Len(pgPages[Len(pgPages)]) < 100
            /\ pgRepos = Flatten(pgPages)
            /\ Len(pgRequests) = Len(pgPages)

\* a full page and then an empty one: two requests, the full page returned
C9_Witness ==
    /\ pgPc = "returned"
    /\ Len(pgPages) = 2
    /\ Len(pgPages[1]) = 100
    /\ pgPages[2] = <<>>
    /\ Len(pgRequests) = 2
    /\ pgRepos = pgPages[1]

\* C10: filterRepositories returns, in input order, exactly the repositories
\* that are (not private or includePrivate) and (not archived or
\* includeArchived) and (not a fork or includeForks) and whose name matches
\* the pattern, unless the pattern is '*'.
C10_Passes(r) ==
    /\ flFilters.includePrivate \/ ~r.private
    /\ flFilters.includeArchived \/ ~r.archived
    /\ flFilters.includeForks \/ ~r.fork
    /\ flFilters.repoGlob = <<STAR>> \/ isMatch(r.name, flFilters.repoGlob)

C10_FilterComposition ==
    flPc = "done" => flOut = SelectSeq(flRepos, C10_Passes)

\* {a public non-fork, b private, c fork} with includePrivate = false and
\* includeForks = false gives exactly {a}
C10_Witness ==
    /\ flPc = "done"
    /\ ~flFilters.includePrivate /\ ~flFilters.includeForks
    /\ Len(flRepos) = 3
    /\ ~flRepos[1].private /\ ~flRepos[1].fork /\ ~flRepos[1].archived
    /\ flRepos[2].private /\ ~flRepos[2].fork
    /\ ~flRepos[3].private /\ flRepos[3].fork
    /\ flFilters.repoGlob = <<"a", STAR>>
    /\ flRepos[1].name = <<"a", "b">>
    /\ flOut = <<flRepos[1]>>


(***************************************************************************)
(* Claims about pruning.                                                   *)
(***************************************************************************)
ProvenanceKeys == {"github_repo", "github_path", "github_url"}

\* the lines between the opening and the closing fence of a header block
HeaderLines(s) == split(substring(s, 2, indexOf(s, <<NL, FENCE, NL>>)), NL)

FirstColon(line) == SetMin({i \in 1..Len(line) : line[i] = COLON})

\* the header lines that name the key: the text before the first colon is
\* the key, blanks aside
KeyLines(s, key) ==
    { n \in 1..Len(HeaderLines(s)) :
        LET line == HeaderLines(s)[n]
        IN  /\ \E i \in 1..Len(line) : line[i] = COLON
            /\ trim(SubSeq(line, 1, FirstColon(line) - 1)) = <<key>> }

\* the value a header line gives: the text after its first colon, blanks aside
ValueAt(s, n) ==
    LET line == HeaderLines(s)[n]
    IN  trim(SubSeq(line, FirstColon(line) + 1, Len(line)))

\* the header lacks one of the provenance keys
LacksProvenanceKey(s) == \E key \in ProvenanceKeys : KeyLines(s, key) = {}

\* a complete provenance header: a leading header block that gives each of
\* the three keys a value, the repository as owner/name
CompleteProvenance(s) ==
    /\ HasHeaderBlock(s)
    /\ \A key \in ProvenanceKeys :
         /\ KeyLines(s, key) # {}
         /\ \A n \in KeyLines(s, key) : ValueAt(s, n) # <<>>
    /\ \A n \in KeyLines(s, "github_repo") :
         LET names == split(ValueAt(s, n), SLASH)
         IN  Len(names) = 2 /\ names[1] # <<>> /\ names[2] # <<>>

\* the Markdown files the call found under the repository folder
MarkdownBefore ==
    { p \in DOMAIN prBefore.files :
        isMarkdownFile(p) /\ startsWith(p, prCall.baseFolderPath \o <<SLASH>>) }

DeletedIn(phase) ==
    { i \in 1..Len(vault.log) :
        vault.log[i].op = "delete" /\ vault.log[i].phase = phase }

\* C2: over any sequence of runs and any changes of the resolved repository
\* set, a file or folder is deleted only if an earlier sync created it; what a
\* user placed under the base folder is never removed, by cleanup or otherwise.
C2_DeletesOnlySynced ==
    \A i \in 1..Len(vault.log) : vault.log[i].op = "delete" => vault.log[i].made

\* the current run follows a complete run, nothing was changed from outside
\* in between, and it resolved the same repositories
SecondRun ==
    /\ syPrev.complete
    /\ syCur.quiet
    /\ syCur.ids = syPrev.ids

\* C3: when the remote repositories, their contents and the configuration
\* are unchanged between two consecutive complete runs (neither meeting a
\* failure), the second run finds every Markdown file already correct: it
\* creates and modifies none, and it deletes nothing.
C3_SecondRunWritesNothing ==
    (SecondRun /\ syCur.complete /\ syPrev.faults = {} /\ syCur.faults = {}) =>
        \A i \in 1..Len(vault.log) :
            /\ vault.log[i].op # "delete"
            /\ vault.log[i].op \in {"create", "modify"}
                 => ~isMarkdownFile(vault.log[i].path)

\* the cleanup of the current run is over
CleanupDone == syPc = "repos" \/ syCur.complete

Conflicts ==
    { <<i, d>> \in (1..Len(settings.repos)) \X (1..Len(rsOut.autoRepos)) :
        /\ settings.repos[i].owner = rsOut.autoRepos[d].owner
        /\ settings.repos[i].repo = rsOut.autoRepos[d].name }

\* the entry a manual repository resolves to
ManualEntry(m) ==
    [owner |-> m.owner, repo |-> m.repo,
     branch |-> IF m.branch = <<>> THEN <<"main">> ELSE m.branch,
     source |-> "manual"]

\* C11: whenever a manual repository and a discovered repository have the
\* same owner/name, the resolved list holds the manual entry, with the manual
\* branch and origin 'manual', and no auto entry of that identity.
C11_ManualPrecedence ==
    rsPc = "done" =>
        \A c \in Conflicts :
            LET m == settings.repos[c[1]]
            IN  /\ \E k \in 1..Len(rsOut.configs) : rsOut.configs[k] = ManualEntry(m)
                /\ \A k \in 1..Len(rsOut.configs) :
                     (rsOut.configs[k].owner = m.owner /\ rsOut.configs[k].repo = m.repo)
                        => rsOut.configs[k].source = "manual"

\* a resolution with a conflict in which the discovered repository names
\* another branch than the manual entry
C11_Witness ==
    /\ rsPc = "done"
    /\ \E c \in Conflicts :
         /\ ManualEntry(settings.repos[c[1]]).branch # rsOut.autoRepos[c[2]].default_branch
         /\ \E k \in 1..Len(rsOut.configs) :
              rsOut.configs[k] = ManualEntry(settings.repos[c[1]])
    /\ \E k \in 1..Len(rsOut.configs) : rsOut.configs[k].source = "auto"

\* C12: for every manual list, namespaces and discovery results, the list
\* getAllRepoConfigs returns holds at most one entry per owner/name.
C12_OneEntryPerIdentity ==
    rsPc = "done" =>
        \A i, j \in 1..Len(rsOut.configs) :
            (rsOut.configs[i].owner = rsOut.configs[j].owner
               /\ rsOut.configs[i].repo = rsOut.configs[j].repo) => i = j

\* the namespaces, by position, whose two lookups both failed
FailedNamespaces ==
    { i \in 1..Len(settings.namespaces) : ~rsLookups[i].user.ok /\ ~rsLookups[i].org.ok }

\* the listing a namespace answered with, filtered
FilteredOf(i) ==
    filterRepositories(
        IF rsLookups[i].user.ok THEN rsLookups[i].user.repos ELSE rsLookups[i].org.repos,
        settings.autoDefaults)

\* C13: when the lookups of a namespace both fail, that namespace contributes
\* no repository, every other configured namespace is still queried, and the
\* filtered repositories of each namespace that answered are in the result
\* (which holds nothing else).
C13_NamespaceIsolation ==
    (rsPc = "done" /\ FailedNamespaces # {}) =>
        /\ \A i \in 1..Len(settings.namespaces) :
             \E q \in 1..Len(rsOut.requests) :
                rsOut.requests[q] = [kind |-> "users", name |-> settings.namespaces[i]]
        /\ \A i \in (1..Len(settings.namespaces)) \ FailedNamespaces :
             \A r \in 1..Len(FilteredOf(i)) :
                \E d \in 1..Len(rsOut.autoRepos) : rsOut.autoRepos[d] = FilteredOf(i)[r]
        /\ \A d \in 1..Len(rsOut.autoRepos) :
             \E i \in (1..Len(settings.namespaces)) \ FailedNamespaces :
                \E r \in 1..Len(FilteredOf(i)) : rsOut.autoRepos[d] = FilteredOf(i)[r]
        /\ \A i \in FailedNamespaces :
             (\A j \in (1..Len(settings.namespaces)) \ FailedNamespaces :
                 settings.namespaces[j] # settings.namespaces[i])
               => \A d \in 1..Len(rsOut.autoRepos) :
                     rsOut.autoRepos[d].owner # settings.namespaces[i]

\* a resolution in which the first namespace failed and a later one
\* contributed its repositories
C13_Witness ==
    /\ rsPc = "done"
    /\ 1 \in FailedNamespaces
    /\ \E j \in (1..Len(settings.namespaces)) \ FailedNamespaces :
         /\ j > 1
         /\ Len(FilteredOf(j)) > 0
         /\ \E d \in 1..Len(rsOut.autoRepos) : rsOut.autoRepos[d] = FilteredOf(j)[1]


(***************************************************************************)
(* Claims about the orchestration of a run (main.ts syncAll, 102-155).     *)
(***************************************************************************)
\* the baseline the last run that reached its end left in the settings, as
\* the run before the current one saw it
BaselineBefore == IF syPrev.complete THEN syPrev.ids ELSE syPrev.baseline

\* C14: in a run that gets past resolution the cleanup comes before any
\* repository's file sync and compares against the baseline the last complete
\* run stored; the baseline is overwritten only when the loop over the
\* repositories is over, with the identities of the current run; a run that
\* ends earlier leaves the baseline as it was.
C14_OrchestratorOrdering ==
    /\ syCur.baseline = BaselineBefore
    /\ syPc = "cleanup" =>
         /\ syCur.attempted = <<>>
         /\ vault.log = <<>>
         /\ settings.lastSyncedRepos = syCur.baseline
    /\ syPc = "repos" =>
         /\ syCur.removed # -1
         /\ settings.lastSyncedRepos = syCur.baseline
    /\ \A i, j \in 1..Len(vault.log) :
         (i < j /\ vault.log[i].phase # "cleanup") => vault.log[j].phase # "cleanup"
    /\ (syPc = "idle" /\ syCur.complete) =>
         /\ Len(syCur.attempted) = Len(syCur.ids)
         /\ settings.lastSyncedRepos = syCur.ids
    /\ (syPc = "idle" /\ ~syCur.complete) =>
         settings.lastSyncedRepos = syCur.baseline

\* a complete run replaced a baseline that differed from its identities, its
\* cleanup having deleted a folder before its first file was written
C14_Witness ==
    /\ syPc = "idle" /\ syCur.complete
    /\ syCur.baseline # <<>> /\ syCur.baseline # syCur.ids
    /\ settings.lastSyncedRepos = syCur.ids
    /\ \E i, j \in 1..Len(vault.log) :
         i < j /\ vault.log[i].phase = "cleanup" /\ vault.log[j].phase = "sync"


\* C15: a repository whose sync fails does not keep the remaining resolved
\* repositories from being attempted: while the loop runs the repositories
\* attempted are the resolved ones up to the loop's position, each once and
\* in order, and the two counts add up to their number; at the end of the
\* loop that is the number of resolved repositories.
C15_RepositoryIsolation ==
    /\ syPc = "repos" =>
         /\ syIndex <= Len(syCur.ids) + 1
         /\ syCur.attempted = SubSeq(syCur.ids, 1, syIndex - 1)
         /\ syCount.synced + syCount.errors = syIndex - 1
    /\ syCur.complete =>
         /\ syCur.attempted = syCur.ids
         /\ syCount.synced + syCount.errors = Len(syCur.ids)

\* a complete run in which the listing of one repository failed and a
\* repository after it was synced
C15_Witness ==
    /\ syCur.complete
    /\ "list" \in syCur.faults
    /\ syCount.errors = 1 /\ syCount.synced >= 1
    /\ syCur.step.index = Len(syCur.ids) /\ syCur.step.ok


(***************************************************************************)
(* Claims about the sync of one repository (main.ts syncRepository,        *)
(* 261-296, and syncFile, 298-366).                                        *)
(***************************************************************************)
\* the last call of syncRepository in the current run: its repository, the
\* files it was to sync and where it put them
StepDone == syPc = "repos" /\ syCur.step.index >= 1 /\ syCur.step.listed
StepConfig == repoConfigs[syCur.step.index]
StepFiles == getAllSyncableFiles(remote[repoIdOf(StepConfig)], settings.syncMediaFiles)
StepFolder == repoFolderPath(settings.baseFolder, StepConfig.owner, StepConfig.repo)
StepPath(k) == getLocalFilePath(StepFolder, StepFiles[k].path)
StepFaulty == { k \in 1..Len(StepFiles) : syCur.step.faults[k] # "none" }

\* what syncFile writes for the k-th file where nothing is on disk
StepContent(k) ==
    syncFile(EmptyVault, settings, StepConfig, StepFiles[k], StepFolder, now,
             "none").v.files[StepPath(k)]

\* C16: when the fetch or the write of one file of a repository fails, the
\* failure stays inside syncRepository: every other syncable file of the
\* repository is synced all the same (it is on disk with the content the run
\* gives it) and the call returns, the repository counting as synced.
C16_FileIsolation ==
    (StepDone /\ StepFaulty # {}) =>
        /\ syCur.step.ok
        /\ \A j \in 1..Len(StepFiles) \ StepFaulty :
             /\ isFile(vault, StepPath(j))
             /\ vault.files[StepPath(j)] = StepContent(j)

\* a repository of several files: the fetch or write of one failed and a
\* file after it is on disk
C16_Witness ==
    /\ StepDone /\ syCur.step.ok
    /\ \E k \in StepFaulty, j \in 1..Len(StepFiles) \ StepFaulty :
         j > k /\ isFile(vault, StepPath(j))


\* the failed files of the last call that were on disk when the run began
StepHeld == DOMAIN syCur.step.prior

\* C17: when the fetch or the write of a file fails, the local file that was
\* at its path before the run is still there with the content it had, once
\* the sync of the repository (the loop over the files, then the pruning) is
\* over.
C17_FailureKeepsPriorState ==
    StepDone =>
        \A k \in StepHeld :
            /\ isFile(vault, StepPath(k))
            /\ vault.files[StepPath(k)] = syCur.step.prior[k]

\* the same with pruning switched off
C17_KeepsPriorStateWithoutPruning ==
    (StepDone /\ ~settings.pruneExtraneousFiles) =>
        \A k \in StepHeld :
            /\ isFile(vault, StepPath(k))
            /\ vault.files[StepPath(k)] = syCur.step.prior[k]


\* the entries a step adds to the log for writes of the sync phase at path p
WritesTo(p) ==
    { i \in (Len(vault.log) + 1)..Len(vault'.log) :
        vault'.log[i].path = p /\ vault'.log[i].phase = "sync" }

\* C18: for a Markdown file syncFile modifies the local file only when the
\* processed content differs from what is on disk and creates it only when
\* nothing is at the path; when the processed content equals the content on
\* disk no write is issued and the file is as it was.  Stated over the steps
\* that call syncRepository, for the files whose sync met no failure.
C18_WriteOnlyOnChange ==
    [][ (syPc = "repos" /\ syCur'.attempted # syCur.attempted
                         /\ syCur'.step.listed) =>
          LET config == repoConfigs[syIndex]
              files == getAllSyncableFiles(remote[repoIdOf(config)],
                                           settings.syncMediaFiles)
              folder == repoFolderPath(settings.baseFolder, config.owner, config.repo)
              path(k) == getLocalFilePath(folder, files[k].path)
              processed(k) ==
                  syncFile(EmptyVault, settings, config, files[k], folder, now,
                           "none").v.files[path(k)]
          IN  \A k \in 1..Len(files) :
                (isMarkdownFile(files[k].path) /\ syCur'.step.faults[k] = "none") =>
                   IF isFile(vault, path(k))
                   THEN IF vault.files[path(k)] = processed(k)
                        THEN /\ WritesTo(path(k)) = {}
                             /\ isFile(vault', path(k))
                             /\ vault'.files[path(k)] = vault.files[path(k)]
                        ELSE /\ Cardinality(WritesTo(path(k))) = 1
                             /\ \A i \in WritesTo(path(k)) : vault'.log[i].op = "modify"
                             /\ vault'.files[path(k)] = processed(k)
                   ELSE /\ Cardinality(WritesTo(path(k))) = 1
                        /\ \A i \in WritesTo(path(k)) : vault'.log[i].op = "create"
                        /\ vault'.files[path(k)] = processed(k) ]_vars

\* a Markdown file of the last call was on disk with the processed content,
\* and the run has written nothing at its path
C18_Witness ==
    /\ StepDone /\ syCur.step.ok
    /\ \E k \in 1..Len(StepFiles) \ StepFaulty :
         /\ isMarkdownFile(StepFiles[k].path)
         /\ isFile(vault, StepPath(k))
         /\ vault.files[StepPath(k)] = StepContent(k)
         /\ \A i \in 1..Len(vault.log) : vault.log[i].path # StepPath(k)


\* the last run ended at one of the two early returns of syncAll
Aborted == syPc = "idle" /\ now > 0 /\ ~syCur.complete

\* C19 as stated: a run that ends because no token is configured or because
\* no repository was resolved has sent no request to GitHub, has created,
\* modified and deleted nothing, and has left the baseline as it was.
C19_AbortsBeforeNetwork ==
    Aborted =>
        /\ syCur.lookups = <<>>
        /\ vault.log = <<>>
        /\ settings.lastSyncedRepos = syCur.baseline

\* C19, amended: such a run has created, modified and deleted nothing and has
\* left the baseline as it was; it has sent no request when no token or no
\* namespace is configured, and otherwise only the listing requests of the
\* discovery.
C19_AbortsWithoutLocalEffect ==
    Aborted =>
        /\ vault.log = <<>>
        /\ settings.lastSyncedRepos = syCur.baseline
        /\ (settings.githubToken = <<>> \/ settings.namespaces = <<>>) =>
               syCur.lookups = <<>>
        /\ \A i \in 1..Len(syCur.lookups) :
               /\ syCur.lookups[i].kind \in {"users", "orgs"}
               /\ inList(syCur.lookups[i].name, settings.namespaces)

\* a run that followed a complete one resolved nothing after its discovery had
\* asked GitHub, and left the earlier baseline in the settings
C19_Witness ==
    /\ Aborted
    /\ syNotices = <<"No repositories configured for sync">>
    /\ syCur.lookups # <<>>
    /\ syPrev.complete /\ settings.lastSyncedRepos = syPrev.ids
    /\ syPrev.ids # <<>>


(***************************************************************************)
(* Claims about the triggers (main.ts onload, 30-35, setupAutoSync, 88-96).*)
(***************************************************************************)
InProgress(r) == ovRuns[r].pc # "idle"

\* C20: nothing keeps a second syncAll from starting while one is in
\* progress: whenever the run of one trigger is between its start and its
\* end, the other trigger can start its own (the timer when it is set), so
\* both come to be in progress on the one vault and the one baseline.
C20_UnguardedOverlap ==
    /\ (InProgress("timer") /\ ~InProgress("command") /\ now < MaxRuns) =>
           ENABLED SyncNowCommand
    /\ (InProgress("command") /\ ~InProgress("timer") /\ now < MaxRuns
           /\ syncInterval) =>
           ENABLED TimerFires

\* the run of the timer and the run of the command are both in their loops,
\* each having written to the vault, the settings holding a baseline stored
\* by a run before them
C20_Witness ==
    /\ InProgress("timer") /\ InProgress("command")
    /\ ovRuns["timer"].ops > 0 /\ ovRuns["command"].ops > 0
    /\ ovRuns["timer"].index > 1 /\ ovRuns["command"].index > 1
    /\ settings.lastSyncedRepos # <<>>


(***************************************************************************)
(* Claims about the listing (github.ts getAllSyncableFiles, 161-184).      *)
(***************************************************************************)
\* C21: getAllSyncableFiles returns exactly the entries of the tree, in its
\* order, that are blobs and are Markdown (.md, .mdx) or, with the media
\* toggle on, media of the allow-list; no entry of type tree is returned,
\* and with the toggle off nothing but Markdown.
C21_ListingClassification ==
    lsPc = "done" =>
        /\ lsOut = SelectSeq(lsTree, LAMBDA item :
                      \/ item.is = "markdown"
                      \/ lsMedia /\ item.is = "media")
        /\ \A i \in 1..Len(lsOut) :
             /\ lsOut[i].type # "tree"
             /\ ~lsMedia => isMarkdownFile(lsOut[i].path)

\* a listing with the toggle on kept a media file and dropped a directory or
\* a file that is neither
C21_Witness ==
    /\ lsPc = "done" /\ lsMedia
    /\ \E i \in 1..Len(lsOut) : lsOut[i].is = "media"
    /\ \E i \in 1..Len(lsTree) : lsTree[i].is \in {"directory", "other"}


\* the k-th file of the last call was written or found up to date: its sync
\* met no failure, or the vault would have rejected a write and none was
\* needed (the file on disk holds the processed content)
StepReconciled(k) ==
    \/ syCur.step.faults[k] = "none"
    \/ /\ syCur.step.faults[k] = "write"
       /\ isMarkdownFile(StepFiles[k].path)
       /\ isFile(vault, StepPath(k))
       /\ vault.files[StepPath(k)] = StepContent(k)

\* C22: when the loop of syncRepository over the files is over, the
\* synced-set is exactly the local paths of the files that were written or
\* found up to date in this pass; a file whose sync failed, or for which
\* neither a write nor a comparison took place, is not in it.
C22_SyncedSetExact ==
    (StepDone /\ Len(StepFiles) > 0) =>
        syCur.step.syncedFiles =
            { StepPath(k) : k \in { j \in 1..Len(StepFiles) : StepReconciled(j) } }

\* the same where the client was there at every call of syncFile
C22_SyncedSetExactWithClient ==
    (StepDone /\ Len(StepFiles) > 0
       /\ \A k \in 1..Len(StepFiles) : syCur.step.faults[k] # "noclient") =>
        syCur.step.syncedFiles =
            { StepPath(k) : k \in { j \in 1..Len(StepFiles) : StepReconciled(j) } }


\* the local paths of the files the repository of the last call holds on
\* GitHub
StepRemotePaths ==
    { getLocalFilePath(StepFolder, remote[repoIdOf(StepConfig)][k].path) :
        k \in { j \in 1..Len(remote[repoIdOf(StepConfig)]) :
                  remote[repoIdOf(StepConfig)][j].type = "blob" } }

\* the Markdown files with a provenance header under the repository folder
\* of the last call whose remote file is gone
StepStale ==
    { p \in below(DOMAIN vault.files, StepFolder) :
        /\ isMarkdownFile(p)
        /\ CompleteProvenance(vault.files[p])
        /\ p \notin StepRemotePaths }

\* C23: with pruning on, every resolved repository whose listing succeeds is
\* pruned after its files are synced, however many syncable files the
\* listing holds: no Markdown file with a provenance header is left under
\* the repository folder once its remote file is gone.
C23_PruningFollowsReconciliation ==
    (StepDone /\ settings.pruneExtraneousFiles) => StepStale = {}

\* the same for the listings that hold at least one syncable file
C23_PruningAfterNonEmptyListing ==
    (StepDone /\ settings.pruneExtraneousFiles /\ Len(StepFiles) > 0) =>
        StepStale = {}


(***************************************************************************)
(* Claims about the cleanup (main.ts cleanupRemovedRepositories, 501-560). *)
(***************************************************************************)
IdFolder(id) ==
    repoFolderPath(settings.baseFolder, split(id, SLASH)[1], split(id, SLASH)[2])

IdsIn(list) == { list[i] : i \in 1..Len(list) }

\* the identities owner/repo of the folders two levels below the base folder
OnDiskIds ==
    { <<split(p, SLASH)[2][1], SLASH, split(p, SLASH)[3][1]>> :
        p \in { q \in vault.folders :
                  /\ Len(split(q, SLASH)) = 3
                  /\ split(q, SLASH)[1] = settings.baseFolder } }

\* the baseline minus the current identities, united with the folders on
\* disk minus the current identities
RemovedIds == (IdsIn(settings.lastSyncedRepos) \cup OnDiskIds) \ IdsIn(syCur.ids)

\* the paths the step deleted, and the place of a path among its deletes
Deleted == { vault'.log[i].path : i \in { j \in 1..Len(vault'.log) :
                                            vault'.log[j].op = "delete" } }

DeletedAt(p) == CHOOSE i \in 1..Len(vault'.log) :
                    vault'.log[i].op = "delete" /\ vault'.log[i].path = p

Under(p, folder) == p = folder \/ startsWith(p, folder \o <<SLASH>>)

\* the folder of a current identity is left alone, and whatever is deleted
\* is a folder of a removed identity, something in it, or an owner folder
CleanupWithinScope ==
    /\ \A id \in IdsIn(syCur.ids), p \in Deleted : ~Under(p, IdFolder(id))
    /\ \A p \in Deleted :
         \/ \E id \in RemovedIds : isFolder(vault, IdFolder(id)) /\ Under(p, IdFolder(id))
         \/ Len(split(p, SLASH)) = 2

\* every existing folder of a removed identity is gone with all it held, its
\* content deleted before the folder itself
CleanupDeletesRemoved ==
    \A id \in RemovedIds :
        isFolder(vault, IdFolder(id)) =>
            /\ ~exists(vault', IdFolder(id))
            /\ \A p \in DOMAIN vault.files \cup vault.folders :
                 Under(p, IdFolder(id)) =>
                     /\ ~exists(vault', p)
                     /\ p \in Deleted
                     /\ DeletedAt(p) <= DeletedAt(IdFolder(id))

OwnerFolder(id) == settings.baseFolder \o <<SLASH>> \o split(id, SLASH)[1]

\* an owner folder that still holds a folder or a file after the cleanup is
\* left in place, and no other owner folder than those of the removed
\* identities is deleted
OwnerFolderKept ==
    /\ \A id \in RemovedIds :
         \A p \in below(DOMAIN vault.files \cup vault.folders, OwnerFolder(id)) :
           (\A r \in RemovedIds : ~Under(p, IdFolder(r)))
             => exists(vault', p) /\ isFolder(vault', OwnerFolder(id))
    /\ \A id \in RemovedIds :
         (isFolder(vault, OwnerFolder(id))
            /\ childFiles(vault', OwnerFolder(id))
                 \cup childFolders(vault', OwnerFolder(id)) # {})
           => isFolder(vault', OwnerFolder(id))
    /\ \A p \in Deleted :
         Len(split(p, SLASH)) = 2 => \E id \in RemovedIds : p = OwnerFolder(id)

\* an owner folder of a removed identity that holds nothing after the cleanup
\* is deleted
OwnerFolderDeleted ==
    \A id \in RemovedIds :
        (isFolder(vault, OwnerFolder(id))
           /\ below(DOMAIN vault'.files \cup vault'.folders, OwnerFolder(id)) = {})
          => ~exists(vault', OwnerFolder(id))

RemovedLeft ==
    { id \in RemovedIds :
        isFolder(vault, IdFolder(id)) /\ isFolder(vault', IdFolder(id)) }

\* C26: when the delete of one removed repository's folder fails, the folder
\* of every other removed identity is deleted all the same (one rejected
\* delete leaves at most one of the folders), and the run goes on to the
\* loop over the repositories.
C26_CleanupFailureIsolation ==
    [][ syPc = "cleanup" =>
          /\ Cardinality(RemovedLeft) <= 1
          /\ ("delete" \notin syCur'.faults => RemovedLeft = {})
          /\ syPc' = "repos" /\ syIndex' = 1 ]_vars

\* a cleanup of two removed repositories: the delete of the first one's
\* folder failed, the second one's folder is deleted
C26_Witness ==
    /\ syPc = "repos" /\ syCur.attempted = <<>>
    /\ "delete" \in syCur.faults
    /\ Len(syCur.baseline) = 2
    /\ isFolder(vault, IdFolder(syCur.baseline[1]))
    /\ \E i \in 1..Len(vault.log) :
         /\ vault.log[i].op = "delete"
         /\ vault.log[i].path = IdFolder(syCur.baseline[2])


\* the identities whose repository folder a cleanup step removes
RemovedFolderIds ==
    { id \in RemovedIds :
        isFolder(vault, IdFolder(id)) /\ ~isFolder(vault', IdFolder(id)) }

\* the notice a cleanup step shows, if any
CleanupNotice ==
    IF Len(syNotices') > Len(syNotices) THEN syNotices'[Len(syNotices')] ELSE <<>>

\* C27: the number of removed repositories that cleanup reports equals the
\* number of distinct identities whose folders were removed in that run, and
\* a notice is shown only when at least one repository was removed.
C27_CleanupCount ==
    [][ syPc = "cleanup" =>
          /\ syCur'.removed = Cardinality(RemovedFolderIds)
          /\ IF RemovedFolderIds = {} THEN CleanupNotice = <<>>
             ELSE CleanupNotice = <<"Cleaned up", Cardinality(RemovedFolderIds),
                                    "removed repositories">> ]_vars

\* what the count is: the length of the list of removed ids, which is never
\* below the number of folders removed, and the notice carries that length
C27_CleanupCountIsListLength ==
    [][ syPc = "cleanup" =>
          /\ syCur'.removed = Len(removedRepoIdsOf(vault, settings, currentRepoIds))
          /\ syCur'.removed >= Cardinality(RemovedFolderIds)
          /\ IF syCur'.removed = 0 THEN CleanupNotice = <<>>
             ELSE CleanupNotice = <<"Cleaned up", syCur'.removed,
                                    "removed repositories">> ]_vars


\* C28: for a syncable file whose fetched content is binary (a media file)
\* syncFile writes on every run: it modifies the local file when something is
\* at the path and creates it otherwise, whatever the content on disk, and
\* what it writes is the fetched content with no header, banner or backlink.
\* Stated over the steps that call syncRepository, for the files whose sync
\* met no failure.
C28_BinaryWrittenUnconditionally ==
    [][ (syPc = "repos" /\ syCur'.attempted # syCur.attempted
                         /\ syCur'.step.listed) =>
          LET config == repoConfigs[syIndex]
              files == getAllSyncableFiles(remote[repoIdOf(config)],
                                           settings.syncMediaFiles)
              folder == repoFolderPath(settings.baseFolder, config.owner, config.repo)
              path(k) == getLocalFilePath(folder, files[k].path)
          IN  \A k \in 1..Len(files) :
                (isMediaFile(files[k].path) /\ syCur'.step.faults[k] = "none") =>
                   /\ Cardinality(WritesTo(path(k))) = 1
                   /\ \A i \in WritesTo(path(k)) :
                        vault'.log[i].op = IF exists(vault, path(k)) THEN "modify"
                                           ELSE "create"
                   /\ isFile(vault', path(k))
                   /\ vault'.files[path(k)] = files[k].content ]_vars

\* a media file is modified in a run that follows a complete run without
\* failure, nothing having changed in between: the bytes on disk were the
\* bytes fetched
C28_Witness ==
    /\ StepDone /\ syCur.step.ok /\ syCur.quiet
    /\ syPrev.complete /\ syPrev.faults = {}
    /\ \E k \in 1..Len(StepFiles) \ StepFaulty :
         /\ isMediaFile(StepFiles[k].path)
         /\ vault.files[StepPath(k)] = StepFiles[k].content
         /\ \E i \in 1..Len(vault.log) :
              /\ vault.log[i].path = StepPath(k)
              /\ vault.log[i].op = "modify" /\ vault.log[i].phase = "sync"


(***************************************************************************)
(* Claims about the pruning of media files (main.ts pruneFolder, 456-488). *)
(***************************************************************************)
\* a path that fits the layout base/owner/repo/...: under the configured
\* base folder, with an owner and something more below it
LayoutConsistent(p, baseFolder) ==
    /\ startsWith(p, baseFolder \o <<SLASH>>)
    /\ Len(split(substringFrom(p, Len(baseFolder) + 1), SLASH)) >= 2

\* the media files the call found outside the synced-set
MediaOutsideSyncedSet ==
    { p \in DOMAIN prBefore.files : isMediaFile(p) /\ p \notin prCall.syncedFiles }

\* C29: during pruning a file with a recognized media extension that is
\* absent from the synced-set is deleted if and only if its path fits the
\* layout base/owner/repo/... of the configured base folder, and a file that
\* is neither Markdown nor recognized media is never deleted.
C29_MediaPruning ==
    prPc = "done" =>
        /\ \A p \in MediaOutsideSyncedSet :
             ~isFile(vault, p) <=> LayoutConsistent(p, settings.baseFolder)
        /\ \A p \in DOMAIN prBefore.files :
             (~isMarkdownFile(p) /\ ~isMediaFile(p)) =>
                 /\ isFile(vault, p)
                 /\ vault.files[p] = prBefore.files[p]

\* the same where the base folder is a single name, as the default is
C29_MediaPruningUnderPlainBase ==
    (prPc = "done" /\ Len(split(settings.baseFolder, SLASH)) = 1) =>
        /\ \A p \in MediaOutsideSyncedSet :
             ~isFile(vault, p) <=> LayoutConsistent(p, settings.baseFolder)
        /\ \A p \in DOMAIN prBefore.files :
             (~isMarkdownFile(p) /\ ~isMediaFile(p)) =>
                 /\ isFile(vault, p)
                 /\ vault.files[p] = prBefore.files[p]

\* under a nested base folder no media file is pruned, and the other files
\* are kept as well
C29_NoMediaPruningUnderNestedBase ==
    (prPc = "done" /\ Len(split(settings.baseFolder, SLASH)) > 1) =>
        \A p \in DOMAIN prBefore.files :
            ~isMarkdownFile(p) =>
                /\ isFile(vault, p)
                /\ vault.files[p] = prBefore.files[p]


(***************************************************************************)
(* Claims about where the sync writes (main.ts syncRepository, 275-290,    *)
(* getLocalFilePath, 368-370).                                             *)
(***************************************************************************)
\* baseFolder/owner/repo/remotePath, written out
OwnedPath(config, githubPath) ==
    settings.baseFolder \o <<SLASH>> \o config.owner \o <<SLASH>> \o config.repo
        \o <<SLASH>> \o githubPath

\* the (repository, remote path) pairs of the files GitHub holds
RemotePairs ==
    UNION { { <<config, remote[repoIdOf(config)][k].path>> :
                k \in 1..Len(remote[repoIdOf(config)]) } :
            config \in {c \in {RepoA, RepoB, RepoC} : repoIdOf(c) \in DOMAIN remote} }

\* the local path the sync gives a pair
LocalPathOf(pair) ==
    getLocalFilePath(repoFolderPath(settings.baseFolder, pair[1].owner, pair[1].repo),
                     pair[2])

\* C30: every create or modify of a file issued while a repository is
\* reconciled is at baseFolder/owner/repo/remotePath for a syncable file of
\* that repository, hence inside the repository's folder (the folders the
\* reconciliation creates are the folders on the way to such a path);
\* reconciliation deletes nothing; and two distinct (repository identity,
\* remote path) pairs never have the same local path.
C30_LocalPathOwnership ==
    [][ (syPc = "repos" /\ syCur'.attempted # syCur.attempted) =>
          LET config == repoConfigs[syIndex]
              files == getAllSyncableFiles(remote[repoIdOf(config)],
                                           settings.syncMediaFiles)
              targets == { OwnedPath(config, files[k].path) : k \in 1..Len(files) }
              issued == { i \in (Len(vault.log) + 1)..Len(vault'.log) :
                            vault'.log[i].phase = "sync" }
          IN  /\ \A i \in issued :
                   /\ vault'.log[i].op # "delete"
                   /\ vault'.log[i].op \in {"create", "modify"} =>
                        /\ vault'.log[i].path \in targets
                        /\ Under(vault'.log[i].path,
                                 settings.baseFolder \o <<SLASH>> \o repoIdOf(config))
                   /\ vault'.log[i].op = "createFolder" =>
                        \E t \in targets :
                            startsWith(t, vault'.log[i].path \o <<SLASH>>)
              /\ \A a, b \in RemotePairs :
                   (repoIdOf(a[1]) # repoIdOf(b[1]) \/ a[2] # b[2]) =>
                       LocalPathOf(a) # LocalPathOf(b) ]_vars

\* a run has written the README of two repositories, each under its own
\* folder, and a file in a subfolder of one of them
C30_Witness ==
    /\ StepDone /\ Len(syCur.attempted) >= 2
    /\ \E i, j, k \in 1..Len(vault.log) :
         /\ vault.log[i].op = "create" /\ vault.log[i].phase = "sync"
         /\ vault.log[i].path = OwnedPath(RepoA, <<"README", ".md">>)
         /\ vault.log[j].op = "create" /\ vault.log[j].phase = "sync"
         /\ vault.log[j].path = OwnedPath(RepoB, <<"README", ".md">>)
         /\ vault.log[k].op = "create" /\ vault.log[k].phase = "sync"
         /\ vault.log[k].path = OwnedPath(RepoA, <<"docs", SLASH, "guide", ".md">>)


(***************************************************************************)
(* Claims about the provenance header as a record of the metadata          *)
(* (github.ts addFrontmatterIfMissing, 255-274, extractGitHubMetadata,     *)
(* 394-449).                                                               *)
(***************************************************************************)
\* the document is the body with the header written by a first run of
\* processFileContent
HeaderWritten ==
    /\ hist = <<"process">>
    /\ options.addFrontmatter
    /\ ~startsWith(body, <<FENCE, NL>>)

\* the metadata as extractGitHubMetadata returns it
Recovered(m) ==
    [none |-> FALSE, owner |-> m.owner, repo |-> m.repo, branch |-> m.branch,
     path |-> m.path, githubUrl |-> m.githubUrl]

\* a document extractGitHubMetadata is to refuse: no leading header block, or
\* a header that lacks one of the three keys
NotProvenance(s) == ~HasHeaderBlock(s) \/ LacksProvenanceKey(s)

\* C31: for every body that does not begin with a header block and every
\* metadata m, extractGitHubMetadata of the body with the header added
\* returns the owner, repo, branch, path and URL of m; and
\* extractGitHubMetadata returns none for any content without a leading
\* header block or whose header lacks one of the three required keys.
C31_MetadataRecoverable ==
    /\ HeaderWritten => extractGitHubMetadata(doc) = Recovered(meta)
    /\ NotProvenance(doc) => extractGitHubMetadata(doc) = NoMetadata

\* the same for the metadata whose branch name holds no slash
C31_RecoverableWithPlainBranch ==
    /\ (HeaderWritten /\ ~includes(meta.branch, <<SLASH>>))
          => extractGitHubMetadata(doc) = Recovered(meta)
    /\ NotProvenance(doc) => extractGitHubMetadata(doc) = NoMetadata

\* what is recovered in every case: all but the branch, which is the text of
\* the URL between 'blob/' and the next slash
C31_RecoveredButBranch ==
    HeaderWritten =>
        LET m == extractGitHubMetadata(doc)
        IN  /\ ~m.none
            /\ m.owner = meta.owner /\ m.repo = meta.repo
            /\ m.path = meta.path /\ m.githubUrl = meta.githubUrl
            /\ m.branch = split(meta.branch, SLASH)[1]


(***************************************************************************)
(* Claims about the layout processFileContent gives a document             *)
(* (github.ts processFileContent, 340-361, addBacklink, 307-338).          *)
(***************************************************************************)
\* the body holds no block of the sync: no header block, no banner title, no
\* backlink line
NoBlocks(s) == ~HasHeaderBlock(s) /\ ~includes(s, <<WARN>>) /\ ~HasBacklinkLine(s)

\* the header from the opening to the closing fence line; the blank line the
\* template ends with separates the blocks from the body
HeaderLinesBlock(m, t) == popped(frontmatterBlock(m, t))

BacklinkBlock(o) == <<BLOPEN>> \o o.backlinkTarget \o <<BLCLOSE, NL, NL>>

\* [header] [banner] [backlink] body for the enabled blocks
CanonicalLayout(s, m, o, t) ==
    (IF o.addFrontmatter THEN HeaderLinesBlock(m, t) ELSE <<>>)
      \o (IF o.addReadonlyBanner THEN bannerBlock(m) ELSE <<>>)
      \o (IF o.addBacklinks THEN BacklinkBlock(o) ELSE <<>>)
      \o (IF o.addFrontmatter THEN <<NL>> ELSE <<>>)
      \o s

\* C32: for every body without any pre-existing block and every subset of
\* enabled toggles, processFileContent gives the enabled blocks in the order
\* header, banner, backlink, each once, followed by the body unchanged, and a
\* disabled block is absent.
C32_CanonicalLayout ==
    (hist = <<"process">> /\ NoBlocks(body)) =>
        doc = CanonicalLayout(body, meta, options, 0)

\* the same for the bodies that do not begin with a fence line
C32_CanonicalLayoutWithoutLeadingFence ==
    (hist = <<"process">> /\ NoBlocks(body) /\ ~startsWith(body, <<FENCE, NL>>)) =>
        doc = CanonicalLayout(body, meta, options, 0)


(***************************************************************************)
(* Claims about what a run leaves in the settings (main.ts syncAll,        *)
(* 138-140; settings.ts 31-32).                                            *)
(***************************************************************************)
\* the last run went through its loop over the repositories to the end
RunCompleted == syPc = "idle" /\ syCur.complete

\* C33: after every run of syncAll that completes its loop over the
\* repositories the settings hold both fields updated for that run:
\* lastSyncedRepos is the list of identities of the run, and lastSyncTime is
\* the time of that sync, no longer null.
C33_PersistedSyncState ==
    RunCompleted =>
        /\ settings.lastSyncedRepos = syCur.ids
        /\ settings.lastSyncTime # "null"

\* the identities are stored after every completed run
C33_IdentitiesPersisted ==
    RunCompleted => settings.lastSyncedRepos = syCur.ids

\* no step of the program gives lastSyncTime a value
C33_SyncTimeNeverSet == settings.lastSyncTime = "null"


(***************************************************************************)
(* Claims about the two lookups of a namespace (main.ts                    *)
(* discoverRepositories, 200-219).                                         *)
(***************************************************************************)
\* the number of requests owed to the namespaces before the i-th: one each,
\* and one more for each whose user listing failed
RequestsBefore(i) ==
    (i - 1) + Cardinality({j \in 1..(i - 1) : ~rsLookups[j].user.ok})

\* what the namespaces contribute, from the i-th on: the filtered listing
\* that arrived, nothing where both lookups failed
RECURSIVE ContributionsFrom(_)
ContributionsFrom(i) ==
    IF i > Len(settings.namespaces) THEN <<>>
    ELSE (IF i \in FailedNamespaces THEN <<>> ELSE FilteredOf(i))
         \o ContributionsFrom(i + 1)

\* C34: for each namespace the user listing is requested, and the
\* organisation listing is requested, next, only if the user listing failed;
\* when the user listing arrives, even empty, no organisation request is
\* made; when both fail the namespace is skipped (it contributes nothing and
\* the namespaces after it are looked up as usual).
C34_TwoAttemptLookup ==
    (rsPc = "done" /\ Len(settings.namespaces) > 0) =>
        /\ Len(rsOut.requests) = RequestsBefore(Len(settings.namespaces) + 1)
        /\ \A i \in 1..Len(settings.namespaces) :
             /\ rsOut.requests[RequestsBefore(i) + 1] =
                    [kind |-> "users", name |-> settings.namespaces[i]]
             /\ ~rsLookups[i].user.ok =>
                    rsOut.requests[RequestsBefore(i) + 2] =
                        [kind |-> "orgs", name |-> settings.namespaces[i]]
        /\ Cardinality({q \in 1..Len(rsOut.requests) : rsOut.requests[q].kind = "orgs"})
             = Cardinality({i \in 1..Len(settings.namespaces) : ~rsLookups[i].user.ok})
        /\ rsOut.autoRepos = ContributionsFrom(1)

\* a resolution of two namespaces: the user listing of the first arrived
\* empty where the organisation listing would have arrived, and both
\* lookups of the second failed
C34_Witness ==
    /\ rsPc = "done" /\ Len(settings.namespaces) = 2
    /\ rsLookups[1].user.ok /\ rsLookups[1].user.repos = <<>> /\ rsLookups[1].org.ok
    /\ 2 \in FailedNamespaces
    /\ Len(rsOut.requests) = 3
    /\ rsOut.autoRepos = <<>>


(***************************************************************************)
(* Claims about the chain of backlinks (main.ts calculateBacklinkTarget,   *)
(* 372-397).                                                               *)
(***************************************************************************)
\* C35: starting from any remote path and following the backlink target
\* again and again (the README.md at the target's location is the next
\* file), the directory depth goes down by one at every step, no location is
\* seen twice, and the base folder is the target after at most depth + 1
\* steps: the chain goes on exactly while the file in hand is below the
\* repository root.
C35_BacklinkChainTerminates ==
    /\ \A i \in 1..(Len(blChain) - 1) : Len(blChain[i + 1]) = Len(blChain[i]) - 1
    /\ \A i, j \in 1..Len(blChain) : blChain[i] = blChain[j] => i = j
    /\ blChain # <<>> => Len(blChain) <= Len(blChain[1]) + 1
    /\ blPc = "done" =>
         /\ (blTarget = blIn.baseFolder) <=> (Len(blChain) = Len(blChain[1]) + 1)
         /\ (blTarget = blIn.baseFolder) <=> (blIn.dirs = <<>>)

\* the chain from a file three directories down has reached the base folder
\* at its fourth step
C35_Witness ==
    /\ blPc = "done"
    /\ Len(blChain) = 4 /\ Len(blChain[1]) = 3
    /\ blTarget = blIn.baseFolder


(***************************************************************************)
(* Claims about the timer of the automatic sync (main.ts 37-50, 69-96).    *)
(***************************************************************************)
\* C36: after any sequence of onload, saveSettings and onunload at most one
\* interval timer is registered; after each saveSettings a timer is
\* registered if and only if autoSync is on and the interval is above zero;
\* and a timer set earlier is always cleared before a new one is set (the
\* only timer registered is the one whose handle the plugin holds).
C36_TimerInvariant ==
    /\ Cardinality(tmPlugin.timers) <= 1
    /\ tmPlugin.timers \subseteq {tmPlugin.syncInterval}
    /\ tmLast = "saveSettings" =>
         (tmPlugin.timers # {} <=> autoSyncEnabled(tmSettings))

\* after a saveSettings the third timer the plugin has set is the only one
\* registered
C36_Witness ==
    /\ tmLast = "saveSettings"
    /\ tmPlugin.issued = 3
    /\ tmPlugin.timers = {3}


(***************************************************************************)
(* Claims about what the sync of a repository may delete (main.ts          *)
(* syncRepository, 292-295, pruneExtraneousFiles and pruneFolder, 442-499).*)
(***************************************************************************)
\* the step is a call of syncRepository
CallsSyncRepository == syPc = "repos" /\ syCur'.attempted # syCur.attempted

\* the vault operations of the step
StepLog == { i \in (Len(vault.log) + 1)..Len(vault'.log) : TRUE }

\* C37: with the pruneExtraneousFiles toggle off a call of syncRepository
\* deletes no local file and no folder, whatever the remote listing and the
\* local tree hold: it issues no delete, and every file and folder that was
\* there is still there.
C37_NoDeletionWithoutPruning ==
    [][ (CallsSyncRepository /\ ~settings.pruneExtraneousFiles) =>
          /\ \A i \in StepLog : vault'.log[i].op # "delete"
          /\ DOMAIN vault.files \subseteq DOMAIN vault'.files
          /\ vault.folders \subseteq vault'.folders ]_vars

\* with the toggle off a call has synced a repository and left in its folder
\* a Markdown file with a provenance header that is not in the synced-set
C37_Witness ==
    /\ StepDone /\ syCur.step.ok /\ ~settings.pruneExtraneousFiles
    /\ syCur.step.syncedFiles # {}
    /\ \E p \in DOMAIN vault.files :
         /\ Under(p, StepFolder) /\ p \notin syCur.step.syncedFiles
         /\ isMarkdownFile(p)
         /\ extractGitHubMetadata(vault.files[p]) # NoMetadata


\* what the vault held strictly below a folder before the call
Below(folder) ==
    { q \in DOMAIN prBefore.files \cup prBefore.folders :
        startsWith(q, folder \o <<SLASH>>) }

\* the positions of the log where the call deleted something
Deletions == { i \in DOMAIN vault.log : vault.log[i].op = "delete" }

\* C38: pruning of a repository never deletes a file whose path is in the
\* synced-set, deletes nothing outside the repository's root folder, never
\* deletes the root folder itself, and deletes a subfolder only when nothing
\* is left in it after its own pruning: every file and folder that was below
\* a deleted subfolder was deleted by an earlier deletion of its own.
C38_PruningFrame ==
    prPc = "done" =>
      /\ \A p \in prCall.syncedFiles \cap DOMAIN prBefore.files :
           /\ p \in DOMAIN vault.files
           /\ vault.files[p] = prBefore.files[p]
      /\ \A i \in Deletions :
           startsWith(vault.log[i].path, prCall.baseFolderPath \o <<SLASH>>)
      /\ \A p \in DOMAIN prBefore.files :
           ~Under(p, prCall.baseFolderPath) =>
               /\ p \in DOMAIN vault.files
               /\ vault.files[p] = prBefore.files[p]
      /\ \A f \in prBefore.folders :
           ~startsWith(f, prCall.baseFolderPath \o <<SLASH>>) => f \in vault.folders
      /\ \A i \in Deletions :
           vault.log[i].path \in prBefore.folders =>
               \A q \in Below(vault.log[i].path) :
                   \E j \in Deletions : j < i /\ vault.log[j].path = q

\* a call that deleted a subfolder after deleting the files in it, kept a file
\* of the synced-set in the root folder, and left the root folder and the
\* synced file of the repository next to it in place
C38_Witness ==
    /\ prPc = "done"
    /\ \E f \in prBefore.folders :
         /\ startsWith(f, prCall.baseFolderPath \o <<SLASH>>)
         /\ Below(f) \cap DOMAIN prBefore.files # {}
         /\ f \notin vault.folders
    /\ prCall.syncedFiles \cap DOMAIN vault.files # {}
    /\ \E p \in DOMAIN vault.files :
         /\ ~Under(p, prCall.baseFolderPath)
         /\ extractGitHubMetadata(vault.files[p]) # NoMetadata
    /\ prCall.baseFolderPath \in vault.folders
====
